---- MODULE Spec2Model ----
(***************************************************************************)
(* Ingestion pipeline core of the crawlers: the versioned store            *)
(* (toy_news MongoDBPipeline), the translation enqueue steps and the       *)
(* translation batch workers (toy_news and jump_cal translation_service).  *)
(***************************************************************************)
EXTENDS Integers, Sequences, FiniteSets, TLC

(***************************************************************************)
(* Bounds of the model.                                                    *)
(***************************************************************************)
\* process_item calls started in one behaviour
MaxCalls == 3

\* records ingested by the translation-side pipelines in one behaviour
MaxIngests == 2

\* batch_size of the translation workers (10 in the source), scaled down
\* so that a batch can be smaller than the pending collection
BatchSize == 2

(***************************************************************************)
(* Values.  A python dict is a function from a finite set of keys; None    *)
(* (also what dict.get gives for a missing key) is the string "None".      *)
(***************************************************************************)
None == "None"

Get(d, k) == IF k \in DOMAIN d THEN d[k] ELSE None

EmptyDict == [k \in {} |-> None]

\* d1 overwritten by d2, the effect of MongoDB's $set of d2 on a document d1
Merge(d1, d2) ==
    [k \in (DOMAIN d1) \cup (DOMAIN d2) |-> IF k \in DOMAIN d2 THEN d2[k] ELSE d1[k]]

(***************************************************************************)
(* The versioned store: MongoDBPipeline of toy_news/pipelines/mongo.py.    *)
(***************************************************************************)
Urls == {"u1", "u2"}

Writers == {1, 2}

\* the single writer of the sequential specification
SeqWriters == {1}

FieldKeys == {"name", "price"}

FieldVals(k) == IF k = "name" THEN {"a", "b"} ELSE {"", "p"}

\* the scraped records: a url and any subset of the other fields
Dicts == UNION {{d \in [S -> {"a", "b", "", "p"}] : \A k \in S : d[k] \in FieldVals(k)} :
                S \in SUBSET FieldKeys}

Items == [url : Urls, fields : Dicts]

\* the records of the interleaved writers: all for one identity
ConcItems == {it \in Items : it.url = "u1"}

VARIABLES
    collection,   \* url -> the stored row: [exists, fields, version]
    history,      \* the history collection, in insertion order
    pc,           \* writer -> where it is inside process_item
    item,         \* writer -> the record it is processing
    old_data,     \* writer -> the row its first find_one returned
    calls,        \* process_item calls started so far
    detect,       \* a call of _detect_changes: its arguments and what it returned
    chain,        \* the last run of a record through the item pipelines that follow
                  \* the raw store: what each stage handed on or raised
    notify,       \* notifications: spider.notify_meta and the urls whose changes
                  \* process_item went on to send to the notify API
    products,     \* raw_data_id -> the row of the normalized product collection
    queue,        \* the redis translation queue, head first
    pending,      \* the pending collection, oldest first
    cache,        \* source text -> its translation cache entry
    last,         \* what the worker cycle that has just run did
    ingests,      \* records ingested so far
    running,      \* self.running of the translation service
    wpc,          \* where the translation service is inside run()
    wl,           \* the locals of the batch the service is processing
    crashes,      \* times the service process died inside a batch
    snap          \* the stores as they were when an interrupted batch began

storeVars == <<collection, history, pc, item, old_data, calls, detect, chain, notify>>

workerVars == <<running, wpc, wl, crashes, snap>>

transVars ==
    <<products, queue, pending, cache, last, ingests, running, wpc, wl, crashes, snap>>

vars == <<collection, history, pc, item, old_data, calls, detect, chain, notify,
          products, queue, pending, cache, last, ingests, running, wpc, wl, crashes,
          snap>>

NoRow == [exists |-> FALSE, fields |-> EmptyDict, version |-> 0]

NoItem == [url |-> "u1", fields |-> EmptyDict]

\* the fields _detect_changes never compares
exclude_fields == {"_id", "updatedAt", "createdAt", "version", "spider_type"}

\* (mutant) compares every key of either side, so a stored field the record lacks
\* counts as changed
DetectChangesBothSides(old, new) ==
    LET keys == (DOMAIN new) \cup (DOMAIN old)
        changed == {k \in keys : k \notin exclude_fields /\ Get(old, k) # Get(new, k)}
    IN  [k \in changed |-> [old |-> Get(old, k), new |-> Get(new, k)]]

\* (mutant) an empty string counts as no value
DetectChangesEmptyIsNone(old, new) ==
    LET Val(v) == IF v = "" THEN None ELSE v
        changed == {k \in DOMAIN new : k \notin exclude_fields /\ Val(Get(old, k)) # Val(new[k])}
    IN  [k \in changed |-> [old |-> Get(old, k), new |-> new[k]]]

\* _detect_changes(old_data, new_data): field -> [old, new] for every key of
\* new_data that is not excluded and whose value differs from old_data.get(key)
DetectChanges(old, new) ==
    LET changed == {k \in DOMAIN new : k \notin exclude_fields /\ Get(old, k) # new[k]}
    IN  [k \in changed |-> [old |-> Get(old, k), new |-> new[k]]]

\* the documents _detect_changes is called with: the fields scraped and the
\* system fields, absent or with a value; a value of a field may be None
DetectKeys == {"name", "price", "version", "spider_type"}

DetectVals(k) ==
    IF k = "name" THEN {"a"}
    ELSE IF k = "price" THEN {None, "", "p"}
    ELSE IF k = "version" THEN {"1", "2"}
    ELSE {"product", "blog"}

DetectDicts ==
    UNION {{d \in [S -> {None, "", "a", "p", "1", "2", "product", "blog"}] :
               \A k \in S : d[k] \in DetectVals(k)} : S \in SUBSET DetectKeys}

\* a stored row always has its _id
StoredRows == {Merge(d, [k \in {"_id"} |-> "id1"]) : d \in DetectDicts}

\* the record may carry an _id of its own
IncomingDicts ==
    DetectDicts \cup {Merge(d, [k \in {"_id"} |-> "id2"]) : d \in DetectDicts}

\* no record has gone through the item pipelines
NoChain == [source |-> None, normalized |-> None, translation |-> None, raised |-> None]

NoDetect == [old |-> EmptyDict, new |-> EmptyDict, changes |-> EmptyDict, done |-> FALSE]

\* process_item, lines 162-165: changes = self._detect_changes(old_data, item_dict)
CallDetectChanges ==
    /\ ~detect.done
    /\ detect' = [detect EXCEPT !.changes = DetectChanges(detect.old, detect.new),
                                !.done = TRUE]
    /\ UNCHANGED <<collection, history, pc, item, old_data, calls, chain, notify>>
    /\ UNCHANGED transVars

\* the locals process_item derives from old_data
IsNew(w) == ~old_data[w].exists

Changes(w) ==
    IF IsNew(w) THEN EmptyDict ELSE DetectChanges(old_data[w].fields, item[w].fields)

\* (mutant) the version counter advances by two
NewVersionSkips(w) == IF IsNew(w) THEN 1 ELSE old_data[w].version + 2

NewVersion(w) == IF IsNew(w) THEN 1 ELSE old_data[w].version + 1

\* (mutant) the first entry carries no marker
InitialMarkerMissing == EmptyDict

\* changes={'_initial': True}
InitialMarker == [k \in {"_initial"} |-> TRUE]

\* (mutant) the entry carries no diff
HistoryDocNoChanges(url, item_dict, changes, version) ==
    [url |-> url, snapshot |-> item_dict, changes |-> EmptyDict, version |-> version]

\* the document _save_to_history inserts
HistoryDoc(url, item_dict, changes, version) ==
    [url |-> url, snapshot |-> item_dict, changes |-> changes, version |-> version]

\* update_one(query, update, upsert=True) applied to the row the store holds now
UpsertRow(row, w) ==
    IF ~row.exists
    THEN \* inserted: $setOnInsert and $set
         [exists  |-> TRUE,
          fields  |-> item[w].fields,
          version |-> IF IsNew(w) THEN 1
                      ELSE IF Changes(w) # EmptyDict THEN NewVersion(w) ELSE 0]
    ELSE \* matched: $set only
         [exists  |-> TRUE,
          fields  |-> Merge(row.fields, item[w].fields),
          version |-> IF ~IsNew(w) /\ Changes(w) # EmptyDict
                      THEN NewVersion(w) ELSE row.version]

\* nothing recorded in spider.notify_meta (product_hash -> isNew), no url
\* whose changes were handed to the notify block
NoNotify == [meta |-> EmptyDict, tried |-> {}]

StoreInit ==
    /\ detect = NoDetect
    /\ chain = NoChain
    /\ notify = NoNotify
    /\ collection = [u \in Urls |-> NoRow]
    /\ history = <<>>
    /\ pc = [w \in Writers |-> "idle"]
    /\ item = [w \in Writers |-> NoItem]
    /\ old_data = [w \in Writers |-> NoRow]
    /\ calls = 0

\* process_item returns: its locals are gone
Return(w) ==
    /\ pc' = [pc EXCEPT ![w] = "idle"]
    /\ item' = [item EXCEPT ![w] = NoItem]
    /\ old_data' = [old_data EXCEPT ![w] = NoRow]

\* process_item, lines 141-165: old_data = find_one(query)
FindOne(w, it) ==
    /\ pc[w] = "idle"
    /\ calls < MaxCalls
    /\ calls' = calls + 1
    /\ item' = [item EXCEPT ![w] = it]
    /\ old_data' = [old_data EXCEPT ![w] = collection[it.url]]
    /\ pc' = [pc EXCEPT ![w] = "found"]
    /\ UNCHANGED <<collection, history, notify>>
    /\ UNCHANGED <<detect, chain>>
    /\ UNCHANGED transVars

\* process_item, lines 167-197: the upsert
UpdateOne(w) ==
    /\ pc[w] = "found"
    /\ collection' = [collection EXCEPT ![item[w].url] = UpsertRow(@, w)]
    /\ pc' = [pc EXCEPT ![w] = "updated"]
    /\ UNCHANGED <<history, item, old_data, calls, notify>>
    /\ UNCHANGED <<detect, chain>>
    /\ UNCHANGED transVars

\* (mutant) the handler re-raises: process_item ends with the exception
DuplicateKeyRaised == "raised"

\* except pymongo.errors.DuplicateKeyError (lines 260-261): a warning is
\* logged, control falls through to `return item` (line 266)
DuplicateKeyHandled == "idle"

\* process_item, lines 260-261: the upsert of a writer that saw no row loses the
\* insert race on the unique url index; the error is logged and the item returned
UpdateOneDuplicateKey(w) ==
    /\ pc[w] = "found"
    /\ IsNew(w)
    /\ collection[item[w].url].exists
    /\ pc' = [pc EXCEPT ![w] = DuplicateKeyHandled]
    /\ item' = [item EXCEPT ![w] = NoItem]
    /\ old_data' = [old_data EXCEPT ![w] = NoRow]
    /\ UNCHANGED <<collection, history, calls, notify>>
    /\ UNCHANGED <<detect, chain>>
    /\ UNCHANGED transVars

\* (mutant) the insert replaces the newest entry of the collection
InsertOneOverLast(coll, doc) ==
    IF coll = <<>> THEN <<doc>> ELSE [coll EXCEPT ![Len(coll)] = doc]

\* history_collection.insert_one(history_doc), line 131
InsertOne(coll, doc) == Append(coll, doc)

\* (mutant) the failure of the notify block leaves process_item as an exception
NotifyFailureRaised == "raised"

\* lines 257-258: the notify block fails (uuid and requests are not imported)
\* inside its own try; except Exception logs it and control reaches
\* `return item` (line 266)
NotifyFailureHandled == "idle"

\* the end of process_item after the history stage: the notify block is
\* entered when there are changes and fails, then the item is returned
ReturnAfterNotify(w) ==
    /\ pc' = [pc EXCEPT ![w] = IF Changes(w) # EmptyDict
                               THEN NotifyFailureHandled ELSE "idle"]
    /\ item' = [item EXCEPT ![w] = NoItem]
    /\ old_data' = [old_data EXCEPT ![w] = NoRow]

\* process_item, lines 202-258 and 266: the history insert, the notify block
\* entered when there are changes, then return
SaveToHistory(w) ==
    /\ pc[w] = "updated"
    /\ history' =
         IF IsNew(w)
         THEN InsertOne(history, HistoryDoc(item[w].url, item[w].fields, InitialMarker, 1))
         ELSE IF Changes(w) # EmptyDict
         THEN InsertOne(history,
                        HistoryDoc(item[w].url, item[w].fields, Changes(w), NewVersion(w)))
         ELSE history
    /\ notify' = IF Changes(w) # EmptyDict
                 THEN [notify EXCEPT !.tried = @ \cup {item[w].url}] ELSE notify
    /\ ReturnAfterNotify(w)
    /\ UNCHANGED <<collection, calls>>
    /\ UNCHANGED <<detect, chain>>
    /\ UNCHANGED transVars

\* _save_to_history, lines 130-136: insert_one raises, the error is logged and
\* swallowed; process_item goes on to the notify block and returns
SaveToHistoryFails(w) ==
    /\ pc[w] = "updated"
    /\ IsNew(w) \/ Changes(w) # EmptyDict
    /\ notify' = IF Changes(w) # EmptyDict
                 THEN [notify EXCEPT !.tried = @ \cup {item[w].url}] ELSE notify
    /\ ReturnAfterNotify(w)
    /\ UNCHANGED <<collection, history, calls>>
    /\ UNCHANGED <<detect, chain>>
    /\ UNCHANGED transVars

\* the spider process is stopped after update_one (line 192) and before
\* _save_to_history (lines 203-225): nothing undoes the update
ProcessStops(w) ==
    /\ pc[w] = "updated"
    /\ Return(w)
    /\ UNCHANGED <<collection, history, calls, notify>>
    /\ UNCHANGED <<detect, chain>>
    /\ UNCHANGED transVars

(***************************************************************************)
(* The translation subsystem of toy_news: the enqueue step                 *)
(* (pipelines/translation.py, after pipelines/normalization.py), the       *)
(* worker (scripts/translation_service.py) and the translator              *)
(* (translators/deepseek_translator.py).                                   *)
(***************************************************************************)
\* the raw records; r3 is the page of r1 scraped by a second spider of the
\* same source into its own raw collection
RawIds == {"r1", "r2", "r3"}

\* the page (url) a raw record was scraped from
PageOf(r) == IF r = "r3" THEN "r1" ELSE r

Names == {"a", "b"}

Descriptions == {"", "a"}

\* every source text a record can carry
Texts == {"a", "b"}

\* fields_to_translate, in the order the code iterates them
Fields == <<"name", "description">>

FieldSet == {"name", "description"}

\* f'{field}CN'
CN(f) == IF f = "name" THEN "nameCN" ELSE "descriptionCN"

\* python truthiness of a text value
Truthy(v) == v # None /\ v # ""

\* the scraped records after mapping: the raw record they come from and the
\* translatable fields
Records == [raw : {"r1", "r2"}, name : Names, description : Descriptions]

\* the records of the second spider
TwinRecords == [raw : {"r3"}, name : Names, description : {""}]

\* the records of page r2 as scraped by two spiders that write to one raw
\* collection (same collection_name), so both update the raw row r2
SharedRecords == [raw : {"r2"}, name : Names, description : {""}, spider_name : {"s1", "s2"}]

\* adapter['spider_name'] = spider.name
SpiderName(rec) ==
    IF "spider_name" \in DOMAIN rec THEN rec.spider_name
    ELSE IF rec.raw = "r3" THEN "s3" ELSE "s1"

\* product_hash: prefix + md5(name|url)[:8]
ProductHash(r, n) == <<PageOf(r), n>>

\* the product_hash of a record: the prefix is the spider_name, so the second
\* spider of a shared raw collection hashes the page differently
RecordHash(rec) ==
    ProductHash(IF SpiderName(rec) = "s2" THEN "r2s2" ELSE rec.raw, rec.name)

NoHash == <<"", "">>

NoProduct ==
    [exists |-> FALSE, product_hash |-> NoHash, name |-> None, description |-> None,
     nameCN |-> None, descriptionCN |-> None, spider_name |-> None]

NoCache == [exists |-> FALSE, translated_text |-> None, usage_count |-> 0, field_name |-> None]

\* no worker cycle has just run
NoBatch ==
    [outcome |-> "none", batch |-> <<>>, missed |-> {}, docs |-> <<>>, calls |-> <<>>,
     deleted |-> {}]

\* the service is not inside a batch
NoLocals ==
    [items |-> <<>>, c0 |-> [t \in Texts |-> NoCache], docs |-> <<>>, calls |-> <<>>,
     k |-> 0, texts |-> <<>>, translations |-> <<>>, j |-> 0, i |-> 0]

\* no batch is being followed
NoSnap ==
    [phase |-> "none", cache |-> [t \in Texts |-> NoCache],
     products |-> [r \in RawIds |-> NoProduct], pending |-> <<>>]

TransInit ==
    /\ snap = NoSnap
    /\ running = TRUE
    /\ wpc = "loop"
    /\ wl = NoLocals
    /\ crashes = 0
    /\ products = [r \in RawIds |-> NoProduct]
    /\ queue = <<>>
    /\ pending = <<>>
    /\ cache = [t \in Texts |-> NoCache]
    /\ last = NoBatch
    /\ ingests = 0

InSeq(sq, x) == \E i \in 1..Len(sq) : sq[i] = x

\* the index of the first document of docs with product_hash h (0: none)
FirstWithHash(docs, h) ==
    LET idx == {i \in 1..Len(docs) : docs[i]["product_hash"] = h}
    IN  IF idx = {} THEN 0 ELSE CHOOSE i \in idx : \A j \in idx : i <= j

-----------------------------------------------------------------------------
\* (mutant) the upsert replaces the row, translations included
NormalizedRowReplaced(row, rec) ==
    [row EXCEPT !.exists = TRUE,
                !.product_hash = RecordHash(rec),
                !.spider_name = SpiderName(rec),
                !.name = rec.name,
                !.description = rec.description,
                !.nameCN = None,
                !.descriptionCN = None]

\* DataNormalizationPipeline._normalize_product_and_save: the upsert by
\* raw_data_id, $set of the mapped fields
NormalizedRow(row, rec) ==
    [row EXCEPT !.exists = TRUE,
                !.product_hash = RecordHash(rec),
                !.spider_name = SpiderName(rec),
                !.name = rec.name,
                !.description = rec.description]

\* the normalized item handed on to TranslationPipeline
Adapter(rec) ==
    [k \in {"product_hash", "name", "description"} |->
        IF k = "product_hash" THEN RecordHash(rec)
        ELSE IF k = "name" THEN rec.name ELSE rec.description]

\* find_one({'product_hash': h}) on the normalized collection
FindProduct(prods, h) ==
    LET rs == {r \in RawIds : prods[r].exists /\ prods[r].product_hash = h}
    IN  IF rs = {} THEN NoProduct ELSE prods[CHOOSE r \in rs : TRUE]

RowCN(row, f) == IF f = "name" THEN row.nameCN ELSE row.descriptionCN

\* (mutant) every field with text on the item, whatever the stored row holds
UntranslatedFieldsOfItem(prods, adapter) == {f \in FieldSet : Truthy(adapter[f])}

\* _process_product_translation: the fields with text on the item and no
\* populated translation on the stored row
UntranslatedFields(prods, adapter) ==
    LET doc == FindProduct(prods, adapter["product_hash"])
    IN  IF doc.exists
        THEN {f \in FieldSet : ~Truthy(RowCN(doc, f)) /\ Truthy(adapter[f])}
        ELSE {f \in FieldSet : Truthy(adapter[f])}

\* _add_to_translation_queue: the payload of the queue message
QueueMessage(adapter, fields) ==
    [k \in {"product_hash"} \cup {f \in fields : Truthy(adapter[f])} |-> adapter[k]]

\* (mutant) the collection has no unique index on product_hash
HashClashIgnored(prods, rec) == FALSE

\* the unique index on product_hash (open_spider, line 36) rejects the upsert:
\* another row holds the product_hash of the record
HashClash(prods, rec) ==
    \E r \in RawIds \ {rec.raw} :
        prods[r].exists /\ prods[r].product_hash = RecordHash(rec)

\* one record through DataNormalizationPipeline and then TranslationPipeline.
\* On DuplicateKeyError _normalize_product_and_save returns the raw item, which
\* has no product_hash, so TranslationPipeline passes it on
IngestStores(rec) ==
    /\ ingests < MaxIngests
    /\ ingests' = ingests + 1
    /\ IF HashClash(products, rec)
       THEN UNCHANGED <<products, queue, notify>>
       ELSE /\ products' = [products EXCEPT ![rec.raw] = NormalizedRow(@, rec)]
            /\ notify' = [notify EXCEPT !.meta =
                             Merge(@, RecordHash(rec) :>
                                          ~products[rec.raw].exists)]
            /\ LET fields == UntranslatedFields(products', Adapter(rec))
                   msg == QueueMessage(Adapter(rec), fields)
               IN  queue' = IF fields = {} \/ DOMAIN msg = {"product_hash"}
                            THEN queue
                            ELSE <<msg>> \o queue
    /\ last' = NoBatch
    /\ snap' = NoSnap
    /\ UNCHANGED <<pending, cache, running, wpc, wl, crashes>>
    /\ UNCHANGED <<collection, history, pc, item, old_data, calls, detect>>

\* one record through the pipelines, what they hand on left unobserved
IngestItem(rec) == IngestStores(rec) /\ UNCHANGED chain

\* the spiders of toy_news/spiders whose pipelines include
\* DataNormalizationPipeline, one of each kind: a bsp_prize spider, a
\* dengeki_hobby spider, and 1kuji
SpiderNames ==
    {"bsp_prize_op", "bsp_prize_op_all", "blog_dengeki_hobby_gunpla",
     "blog_dengeki_hobby_gundam", "1kuji"}

\* _get_source_from_spider
GetSourceFromSpider(spider_name) ==
    IF spider_name \in {"bsp_prize_op", "bsp_prize_op_all"} THEN "bsp_prize"
    ELSE IF spider_name \in {"blog_dengeki_hobby_gunpla", "blog_dengeki_hobby_gundam"}
    THEN "blog_dengeki_hobby"
    ELSE "unknown"

\* _MAPPERS: the sources with a registered mapper
RegisteredSources ==
    {"jump_cal", "bsp_prize", "bandai_hobby", "op_base_shop", "tamashii_web", "ramen_toy",
     "blog_dengeki_hobby"}

\* custom_settings ITEM_PIPELINES of the spider lists NotifyPipeline
HasNotifyPipeline(spider_name) ==
    spider_name \in {"bsp_prize_op", "bsp_prize_op_all", "1kuji"}

\* the spider that scraped a record: r3 is the page as a dengeki spider saw it
SpiderOf(rec) == IF rec.raw = "r3" THEN "blog_dengeki_hobby_gunpla" ELSE "bsp_prize_op"

\* what the stages after the raw store hand on for a mapped record.
\* DataNormalizationPipeline returns the normalized item, or the raw item on
\* DuplicateKeyError.  TranslationPipeline passes an item without product_hash
\* on; for a product it returns the ItemAdapter it built (line 152), except
\* when the stored row leaves no field to translate, where `return item`
\* (line 140) names a variable the method does not have and raises NameError.
\* NotifyPipeline builds ItemAdapter(item) first (line 18), which raises
\* TypeError for an ItemAdapter
PipelineResult(prods, rec) ==
    LET clash == HashClash(prods, rec)
        after == [prods EXCEPT ![rec.raw] = NormalizedRow(@, rec)]
        translation ==
            IF clash THEN "item"
            ELSE IF UntranslatedFields(after, Adapter(rec)) = {} THEN "NameError"
            ELSE "adapter"
    IN  [source      |-> GetSourceFromSpider(SpiderOf(rec)),
         normalized  |-> IF clash THEN "item" ELSE "product",
         translation |-> translation,
         raised      |-> IF translation = "NameError" THEN "NameError"
                         ELSE IF translation = "adapter" /\ HasNotifyPipeline(SpiderOf(rec))
                         THEN "TypeError"
                         ELSE None]

\* one record through the pipelines, what they hand on observed
ItemPipelines(rec) == IngestStores(rec) /\ chain' = PipelineResult(products, rec)

\* a record of a spider whose source has no mapper: map_to_product returns
\* None, _normalize_product_and_save logs and returns None, which goes down
\* the pipelines as the item: TranslationPipeline returns None for it (lines
\* 94-95), NotifyPipeline raises TypeError on ItemAdapter(None) (line 18)
UnmappedItem(spider_name) ==
    /\ GetSourceFromSpider(spider_name) \notin RegisteredSources
    /\ ingests < MaxIngests
    /\ ingests' = ingests + 1
    /\ chain' = [source      |-> GetSourceFromSpider(spider_name),
                 normalized  |-> None,
                 translation |-> None,
                 raised      |-> IF HasNotifyPipeline(spider_name) THEN "TypeError" ELSE None]
    /\ last' = NoBatch
    /\ snap' = NoSnap
    /\ UNCHANGED <<products, queue, notify>>
    /\ UNCHANGED <<pending, cache, running, wpc, wl, crashes>>
    /\ UNCHANGED <<collection, history, pc, item, old_data, calls, detect>>

\* the pending document of a queue message: upsert by product_hash, fields merged
PendingUpsert(pend, msg) ==
    LET i == FirstWithHash(pend, msg["product_hash"])
    IN  IF i = 0 THEN Append(pend, msg)
        ELSE [pend EXCEPT ![i] = Merge(@, msg)]

\* the consumer of the redis queue fills the pending collection
ConsumeQueue ==
    /\ queue # <<>>
    /\ pending' = PendingUpsert(pending, queue[Len(queue)])
    /\ queue' = SubSeq(queue, 1, Len(queue) - 1)
    /\ last' = NoBatch
    /\ snap' = NoSnap
    /\ UNCHANGED <<products, cache, ingests, running, wpc, wl, crashes>>
    /\ UNCHANGED storeVars

-----------------------------------------------------------------------------
\* The translator.  Its output for a text is not determined by the text: each
\* text has two possible translations, or comes back unchanged.
Variants == {1, 2}

Translate(t, v) ==
    IF t = "a" THEN (IF v = 1 THEN "A1" ELSE "A2")
    ELSE (IF v = 1 THEN "B1" ELSE "B2")

ReplyOuts(t) == {Translate(t, v) : v \in Variants} \cup {t}

\* the replies that hold one line for each of the first n texts
RECURSIVE LinesFor(_, _)
LinesFor(texts, n) ==
    IF n = 0 THEN {<<>>}
    ELSE {Append(p, o) : p \in LinesFor(texts, n - 1), o \in ReplyOuts(texts[n])}

\* what the API call of batch_translate_texts gives: an error, or the numbered
\* lines parsed from the response, possibly fewer or more than the texts sent
\* (a line beyond the last text is "extra")
ParsedLists(texts) ==
    UNION {LinesFor(texts, n) : n \in 0..Len(texts)}
    \cup {Append(p, "extra") : p \in LinesFor(texts, Len(texts))}

NoReply == [error |-> FALSE, parsed |-> <<>>]

Replies(texts) ==
    IF texts = <<>> THEN {NoReply}
    ELSE {[error |-> TRUE, parsed |-> <<>>]} \cup
         {[error |-> FALSE, parsed |-> p] : p \in ParsedLists(texts)}

\* DeepSeekTranslator.batch_translate_texts: the parsed translations, truncated
\* to the number of texts or padded with the original texts; the texts
\* themselves when the call raised
BatchTranslateTexts(texts, reply) ==
    IF reply.error THEN texts
    ELSE IF Len(reply.parsed) > Len(texts) THEN SubSeq(reply.parsed, 1, Len(texts))
    ELSE IF Len(reply.parsed) < Len(texts)
    THEN reply.parsed \o SubSeq(texts, Len(reply.parsed) + 1, Len(texts))
    ELSE reply.parsed

\* DeepSeekTranslator.batch_translate_documents, lines 190-199: every document
\* must hold a translation that differs from its source text, else it raises
DocumentsVerified(texts, translations) ==
    \A j \in 1..Len(texts) : translations[j] # texts[j]

-----------------------------------------------------------------------------
\* get_cached_translation
GetCachedTranslation(c, text) ==
    IF c[text].exists THEN c[text].translated_text ELSE None

\* (mutant) the result is not stored
CacheTranslationSkipped(c, text, translated) == c

\* cache_translation: update_one(..., upsert=True) with usage_count in $set
CacheTranslation(c, text, translated) ==
    [c EXCEPT ![text] = [exists |-> TRUE, translated_text |-> translated,
                         usage_count |-> 1, field_name |-> None]]

HasText(doc, f) == f \in DOMAIN doc /\ Truthy(doc[f])

CacheHit(c, doc, f) == HasText(doc, f) /\ Truthy(GetCachedTranslation(c, doc[f]))

CacheMiss(c, doc, f) == HasText(doc, f) /\ ~Truthy(GetCachedTranslation(c, doc[f]))

FieldOfCN(k) == IF k = "nameCN" THEN "name" ELSE "description"

\* translate_with_cache, lines 105-116: a cache hit sets the translated field
WithCacheHits(c, doc) ==
    LET hit == {f \in FieldSet : CacheHit(c, doc, f)}
    IN  Merge(doc, [k \in {CN(f) : f \in hit} |-> GetCachedTranslation(c, doc[FieldOfCN(k)])])

\* translate_with_cache, lines 117-134: list(translation_map[field].keys()), the
\* distinct cache-miss texts of field f in the first n documents, in order of
\* first appearance
RECURSIVE TextsToTranslate(_, _, _, _)
TextsToTranslate(c, items, f, n) ==
    IF n = 0 THEN <<>>
    ELSE LET prev == TextsToTranslate(c, items, f, n - 1)
         IN  IF CacheMiss(c, items[n], f) /\ ~InSeq(prev, items[n][f])
             THEN Append(prev, items[n][f])
             ELSE prev

\* translation_map.items(): the fields with a cache miss, in the order in which
\* the first loop met them
FieldOrder(c, items) ==
    LET First(f) ==
            LET idx == {i \in 1..Len(items) : CacheMiss(c, items[i], f)}
            IN  IF idx = {} THEN 0 ELSE CHOOSE i \in idx : \A j \in idx : i <= j
        fn == First("name")
        fd == First("description")
    IN  IF fn = 0 /\ fd = 0 THEN <<>>
        ELSE IF fd = 0 THEN <<"name">>
        ELSE IF fn = 0 THEN <<"description">>
        ELSE IF fn <= fd THEN <<"name", "description">>
        ELSE <<"description", "name">>

\* cache_translation of the first n translated texts
RECURSIVE CacheAll(_, _, _, _)
CacheAll(c, texts, translations, n) ==
    IF n = 0 THEN c
    ELSE CacheTranslation(CacheAll(c, texts, translations, n - 1), texts[n], translations[n])

\* translate_with_cache, lines 153-158: the positions of texts whose translation
\* document i of the batch receives for field f
ReceivedFrom(c, items, f, texts, i) ==
    {j \in 1..Len(texts) :
        \E k \in 1..Len(items) :
            /\ CacheMiss(c, items[k], f)
            /\ items[k][f] = texts[j]
            /\ FirstWithHash(items, items[k]["product_hash"]) = i}

\* translate_with_cache, lines 105-116: the state after the first loop.
\* [ok, docs, cache, calls]: no error so far, the documents with their cache
\* hits, the cache, the calls made to the translator
CacheLoop(c, items) ==
    [ok |-> TRUE, calls |-> <<>>, cache |-> c,
     docs |-> [i \in 1..Len(items) |-> WithCacheHits(c, items[i])]]

\* translate_with_cache, lines 129-158, for one field of translation_map: texts
\* are sent, the translator answers reply, batch_translate_texts makes
\* translations of it.  c0 and items are the cache and the batch as the first
\* loop saw them.  The call is logged with the texts sent, the number of lines
\* the translator returned (-1: the call raised) and the translations
TranslateField(st, c0, items, f, texts, reply, translations) ==
    LET callLog == Append(st.calls,
                          [field |-> f, texts |-> texts,
                           returned |-> IF reply.error THEN -1 ELSE Len(reply.parsed),
                           translations |-> translations])
    IN  IF ~st.ok THEN st
        ELSE IF ~DocumentsVerified(texts, translations)
        THEN [st EXCEPT !.ok = FALSE, !.calls = callLog]
        ELSE [ok      |-> TRUE,
              calls   |-> callLog,
              cache   |-> CacheAll(st.cache, texts, translations, Len(texts)),
              docs    |-> [i \in 1..Len(items) |->
                            LET js == ReceivedFrom(c0, items, f, texts, i)
                            IN  IF js = {} THEN st.docs[i]
                                ELSE Merge(st.docs[i],
                                           CN(f) :> translations[
                                               CHOOSE j \in js : \A j2 \in js : j2 <= j])]]

\* process_pending_translations, lines 186-212: the product_hash of every
\* document that holds a translated field
PendingDeletions(docs) ==
    {docs[i]["product_hash"] : i \in {k \in 1..Len(docs) :
                                           \E f \in FieldSet : CN(f) \in DOMAIN docs[k]}}

\* bulk_write of UpdateOne({'product_hash': h}, {'$set': translation_updates}),
\* no upsert: a row is changed only if a row with that product_hash exists
BulkWrite(prods, docs) ==
    [r \in RawIds |->
        LET ds == {i \in 1..Len(docs) :
                      /\ docs[i]["product_hash"] = prods[r].product_hash
                      /\ \E f \in FieldSet : CN(f) \in DOMAIN docs[i]}
        IN  IF ~prods[r].exists \/ ds = {} THEN prods[r]
            ELSE LET d == docs[CHOOSE i \in ds : \A i2 \in ds : i2 <= i]
                 IN  [prods[r] EXCEPT
                        !.nameCN = IF "nameCN" \in DOMAIN d THEN d["nameCN"] ELSE @,
                        !.descriptionCN =
                            IF "descriptionCN" \in DOMAIN d THEN d["descriptionCN"] ELSE @]]

\* delete_many({'product_hash': {'$in': pending_deletions}})
DeleteMany(pend, hashes) ==
    SelectSeq(pend, LAMBDA d : d["product_hash"] \notin hashes)

Min(x, y) == IF x <= y THEN x ELSE y

\* find().sort('createdAt', 1).limit(batch_size)
PendingItems(pend) == SubSeq(pend, 1, Min(BatchSize, Len(pend)))

\* process_pending_translations, lines 186-228, on the batch items for which
\* translate_with_cache gave res (an error leaves everything but the cache)
WorkerCycle(items, res) ==
    \E deletions \in {PendingDeletions(res.docs)} :
        /\ cache' = res.cache
        /\ products' = IF res.ok THEN BulkWrite(products, res.docs) ELSE products
        /\ pending' = IF res.ok THEN DeleteMany(pending, deletions) ELSE pending
        /\ last' = [outcome |-> IF res.ok THEN "ok" ELSE "error",
                    batch   |-> items,
                    missed  |-> {m \in (1..Len(items)) \X FieldSet :
                                    CacheMiss(cache, items[m[1]], m[2])},
                    docs    |-> res.docs,
                    calls   |-> res.calls,
                    deleted |-> IF res.ok THEN deletions ELSE {}]
        /\ UNCHANGED <<queue, ingests>>
        /\ UNCHANGED workerVars
        /\ UNCHANGED storeVars

\* the texts the translator returns unchanged whenever it is asked
Untranslatable == {"b"}

\* the reply of a translator that answers every call with one line per text:
\* a translation, or the text itself when it cannot translate it
RECURSIVE ReliableLines(_, _)
ReliableLines(texts, n) ==
    IF n = 0 THEN {<<>>}
    ELSE {Append(p, o) : p \in ReliableLines(texts, n - 1),
                         o \in (IF texts[n] \in Untranslatable THEN {texts[n]}
                                ELSE {Translate(texts[n], v) : v \in Variants})}

ReliableReplies(texts) ==
    IF texts = <<>> THEN {NoReply}
    ELSE {[error |-> FALSE, parsed |-> p] : p \in ReliableLines(texts, Len(texts))}

\* the replies of the translator to a call with texts: anything, or those of the
\* reliable translator
RepliesFor(reliable, texts) ==
    IF reliable THEN ReliableReplies(texts) ELSE Replies(texts)

\* one cycle of the worker, process_pending_translations with its call of
\* translate_with_cache: the calls to the translator, in the order of
\* translation_map, get replies from RepliesFor(reliable, texts); the second
\* call is made only if the first did not raise
CycleWith(reliable) ==
    /\ pending # <<>>
    /\ \E items \in {PendingItems(pending)} :
       \E order \in {FieldOrder(cache, items)} :
       \E t1 \in {IF Len(order) >= 1
                   THEN TextsToTranslate(cache, items, order[1], Len(items)) ELSE <<>>} :
       \E r1 \in RepliesFor(reliable, t1) :
       \E tr1 \in {BatchTranslateTexts(t1, r1)} :
       \E st1 \in {IF Len(order) >= 1
                    THEN TranslateField(CacheLoop(cache, items), cache, items,
                                        order[1], t1, r1, tr1)
                    ELSE CacheLoop(cache, items)} :
       \E t2 \in {IF Len(order) >= 2
                   THEN TextsToTranslate(cache, items, order[2], Len(items)) ELSE <<>>} :
       \E r2 \in (IF st1.ok THEN RepliesFor(reliable, t2) ELSE {NoReply}) :
       \E tr2 \in {BatchTranslateTexts(t2, r2)} :
       \E res \in {IF Len(order) >= 2
                    THEN TranslateField(st1, cache, items, order[2], t2, r2, tr2)
                    ELSE st1} :
           WorkerCycle(items, res)

\* process_pending_translations with a translator that may answer anything
ProcessPendingTranslations == CycleWith(FALSE)

\* process_pending_translations with the reliable translator
ProcessPendingReliable == CycleWith(TRUE)

-----------------------------------------------------------------------------
\* The service process of scripts/translation_service.py with the steps of a
\* batch visible: run() tests self.running, process_pending_translations reads
\* the batch, translate_with_cache calls the translator for a field and caches
\* its texts one by one, bulk_write applies one UpdateOne after another,
\* delete_many removes the pending records.

\* times the service process may die inside a batch in one behaviour
MaxCrashes == 1

\* the positions of run() that are inside process_pending_translations
InBatch == {"translate", "cache", "write", "delete"}

\* what process_pending_translations did, as the ghost record of the cycle
CycleRecord(outcome, locals, callLog, deletions) ==
    [outcome |-> outcome,
     batch   |-> locals.items,
     missed  |-> {m \in (1..Len(locals.items)) \X FieldSet :
                     CacheMiss(locals.c0, locals.items[m[1]], m[2])},
     docs    |-> locals.docs,
     calls   |-> callLog,
     deleted |-> deletions]

\* the ghost record when a batch begins: a batch that follows an interrupted one
\* on the same stores is its rerun; any other batch is followed from here
BatchBegun ==
    IF snap.phase = "crashed" THEN [snap EXCEPT !.phase = "rerun"]
    ELSE [phase |-> "first", cache |-> cache, products |-> products, pending |-> pending]

\* the ghost record when a batch ends: the rerun of an interrupted batch is done
BatchEnded ==
    IF snap.phase = "rerun" THEN [snap EXCEPT !.phase = "done"] ELSE NoSnap

\* (mutant) the loop goes on whatever the flag says
LoopContinuesAlways(flag) == TRUE

\* run(), line 281: while self.running
LoopContinues(flag) == flag

\* run(), line 281, and process_pending_translations, lines 162-180 with the
\* first loop of translate_with_cache (lines 105-124): the loop test passes, the
\* oldest pending records are read and the cache is consulted for their texts
StartBatch ==
    /\ wpc = "loop"
    /\ LoopContinues(running)
    /\ pending # <<>>
    /\ \E items \in {PendingItems(pending)} :
         /\ wl' = [NoLocals EXCEPT !.items = items, !.c0 = cache,
                                   !.docs = CacheLoop(cache, items).docs, !.k = 1, !.i = 1]
         /\ wpc' = IF FieldOrder(cache, items) = <<>> THEN "write" ELSE "translate"
    /\ snap' = BatchBegun
    /\ UNCHANGED <<products, queue, pending, cache, last, ingests, running, crashes>>
    /\ UNCHANGED storeVars

\* the reply of a translator that gives the same result for the same text on
\* every call: one line per text, the text itself when it cannot translate it
SameReply(texts) ==
    [error  |-> FALSE,
     parsed |-> [j \in 1..Len(texts) |->
                    IF texts[j] \in Untranslatable THEN texts[j] ELSE Translate(texts[j], 1)]]

\* the replies to a call of the service, by the kind of translator
CallReplies(translator, texts) ==
    IF translator = "same" THEN {SameReply(texts)}
    ELSE RepliesFor(translator = "reliable", texts)

\* translate_with_cache, lines 129-139: batch_translate_documents for the k-th
\* field of translation_map; if it raises, process_pending_translations ends in
\* its except branch (lines 226-228)
TranslateCall(translator) ==
    /\ wpc = "translate"
    /\ \E f \in {FieldOrder(wl.c0, wl.items)[wl.k]} :
       \E texts \in {TextsToTranslate(wl.c0, wl.items, f, Len(wl.items))} :
       \E reply \in CallReplies(translator, texts) :
       \E tr \in {BatchTranslateTexts(texts, reply)} :
       \E callLog \in {Append(wl.calls,
                              [field |-> f, texts |-> texts,
                               returned |-> IF reply.error THEN -1 ELSE Len(reply.parsed),
                               translations |-> tr])} :
         IF DocumentsVerified(texts, tr)
         THEN /\ wl' = [wl EXCEPT !.texts = texts, !.translations = tr, !.j = 1,
                                  !.calls = callLog]
              /\ wpc' = "cache"
              /\ last' = last
         ELSE /\ wl' = NoLocals
              /\ wpc' = "loop"
              /\ last' = CycleRecord("error", wl, callLog, {})
    /\ snap' = IF wpc' = "loop" THEN BatchEnded ELSE snap
    /\ UNCHANGED <<products, queue, pending, cache, ingests, running, crashes>>
    /\ UNCHANGED storeVars

\* translate_with_cache, lines 142-158, for the j-th text of the field:
\* cache_translation, then the documents that hold the text get its translation
CacheOne ==
    /\ wpc = "cache"
    /\ \E order \in {FieldOrder(wl.c0, wl.items)} :
       \E f \in {order[wl.k]} :
         /\ cache' = CacheTranslation(cache, wl.texts[wl.j], wl.translations[wl.j])
         /\ \E docs \in {[i \in 1..Len(wl.items) |->
                            IF wl.j \in ReceivedFrom(wl.c0, wl.items, f, wl.texts, i)
                            THEN Merge(wl.docs[i], CN(f) :> wl.translations[wl.j])
                            ELSE wl.docs[i]]} :
              IF wl.j < Len(wl.texts)
              THEN /\ wl' = [wl EXCEPT !.docs = docs, !.j = wl.j + 1]
                   /\ wpc' = "cache"
              ELSE IF wl.k < Len(order)
              THEN /\ wl' = [wl EXCEPT !.docs = docs, !.k = wl.k + 1]
                   /\ wpc' = "translate"
              ELSE /\ wl' = [wl EXCEPT !.docs = docs]
                   /\ wpc' = "write"
    /\ UNCHANGED <<products, queue, pending, last, ingests, running, crashes, snap>>
    /\ UNCHANGED storeVars

\* process_pending_translations, lines 186-217: the UpdateOne of the i-th
\* document of the batch, applied by bulk_write in order
WriteOne ==
    /\ wpc = "write"
    /\ IF wl.i <= Len(wl.docs)
       THEN /\ products' = BulkWrite(products, <<wl.docs[wl.i]>>)
            /\ wl' = [wl EXCEPT !.i = wl.i + 1]
            /\ wpc' = "write"
       ELSE /\ products' = products
            /\ wl' = wl
            /\ wpc' = "delete"
    /\ UNCHANGED <<queue, pending, cache, last, ingests, running, crashes, snap>>
    /\ UNCHANGED storeVars

\* process_pending_translations, lines 219-224: delete_many, and the cycle is
\* over
DeleteStep ==
    /\ wpc = "delete"
    /\ \E deletions \in {PendingDeletions(wl.docs)} :
         /\ pending' = DeleteMany(pending, deletions)
         /\ last' = CycleRecord("ok", wl, wl.calls, deletions)
    /\ wl' = NoLocals
    /\ wpc' = "loop"
    /\ snap' = BatchEnded
    /\ UNCHANGED <<products, queue, cache, ingests, running, crashes>>
    /\ UNCHANGED storeVars

\* signal_handler: SIGINT or SIGTERM arrives while run() is in its loop
StopSignal ==
    /\ running
    /\ wpc # "stopped"
    /\ running' = FALSE
    /\ UNCHANGED <<products, queue, pending, cache, last, ingests, wpc, wl, crashes, snap>>
    /\ UNCHANGED storeVars

\* run(), lines 281-301: the loop test fails, the loop and run() end
LoopExit ==
    /\ wpc = "loop"
    /\ ~LoopContinues(running)
    /\ wpc' = "stopped"
    /\ UNCHANGED <<products, queue, pending, cache, last, ingests, running, wl, crashes,
                   snap>>
    /\ UNCHANGED storeVars

\* the service process dies inside a batch and is started again: its locals are
\* lost, __init__ sets self.running and run() enters its loop
CrashRestart ==
    /\ wpc \in InBatch
    /\ crashes < MaxCrashes
    /\ crashes' = crashes + 1
    /\ wl' = NoLocals
    /\ wpc' = "loop"
    /\ running' = TRUE
    /\ snap' = IF snap.phase \in {"first", "rerun"}
               THEN [snap EXCEPT !.phase = "crashed"] ELSE snap
    /\ UNCHANGED <<products, queue, pending, cache, last, ingests>>
    /\ UNCHANGED storeVars

\* one writer, one call after another
Init == StoreInit /\ TransInit

Next ==
    \E w \in SeqWriters :
        \/ \E it \in Items : FindOne(w, it)
        \/ UpdateOne(w)
        \/ SaveToHistory(w)

Spec == Init /\ [][Next]_vars

\* several writers, their steps interleaved
NextConc ==
    \E w \in Writers :
        \/ \E it \in ConcItems : FindOne(w, it)
        \/ UpdateOne(w)
        \/ UpdateOneDuplicateKey(w)
        \/ SaveToHistory(w)

SpecConc == Init /\ [][NextConc]_vars

\* _detect_changes applied to any stored row and any incoming record
InitDetect ==
    /\ TransInit
    /\ notify = NoNotify
    /\ collection = [u \in Urls |-> NoRow]
    /\ history = <<>>
    /\ pc = [w \in Writers |-> "idle"]
    /\ item = [w \in Writers |-> NoItem]
    /\ old_data = [w \in Writers |-> NoRow]
    /\ calls = 0
    /\ \E old \in StoredRows : \E new \in IncomingDicts :
          detect = [NoDetect EXCEPT !.old = old, !.new = new]
    /\ chain = NoChain

SpecDetect == InitDetect /\ [][CallDetectChanges]_vars

\* a later crawl: the store holds the row and the first history entry that an
\* earlier process_item call left for the page
InitRecrawl ==
    /\ TransInit
    /\ detect = NoDetect
    /\ chain = NoChain
    /\ notify = NoNotify
    /\ \E it \in ConcItems :
          /\ collection = [u \in Urls |->
                 IF u = it.url
                 THEN [exists |-> TRUE, fields |-> it.fields, version |-> 1]
                 ELSE NoRow]
          /\ history = <<HistoryDoc(it.url, it.fields, InitialMarker, 1)>>
    /\ pc = [w \in Writers |-> "idle"]
    /\ item = [w \in Writers |-> NoItem]
    /\ old_data = [w \in Writers |-> NoRow]
    /\ calls = 0

\* the row exists, so no upsert inserts and none fails on the url index
NextRecrawl ==
    \E w \in Writers :
        \/ \E it \in ConcItems : FindOne(w, it)
        \/ UpdateOne(w)
        \/ SaveToHistory(w)

SpecRecrawl == InitRecrawl /\ [][NextRecrawl]_vars

\* one writer whose history inserts may fail and whose process may be stopped
\* and started again
NextFail ==
    \E w \in SeqWriters :
        \/ \E it \in Items : FindOne(w, it)
        \/ UpdateOne(w)
        \/ SaveToHistory(w)
        \/ SaveToHistoryFails(w)
        \/ ProcessStops(w)

SpecFail == Init /\ [][NextFail]_vars

\* the records two spiders send through the pipelines for one page
PipeItems == {it \in ConcItems : DOMAIN it.fields = {"name"}}

PipeRecords == {rec \in Records \cup TwinRecords :
                   PageOf(rec.raw) = "r1" /\ rec.description = ""}

\* the item pipelines of two spiders running side by side: MongoDBPipeline,
\* then DataNormalizationPipeline and TranslationPipeline
NextPipe ==
    \/ \E w \in Writers :
          \/ \E it \in PipeItems : FindOne(w, it)
          \/ UpdateOne(w)
          \/ UpdateOneDuplicateKey(w)
          \/ SaveToHistory(w)
    \/ \E rec \in PipeRecords : IngestItem(rec)

SpecPipe == Init /\ [][NextPipe]_vars

\* DataNormalizationPipeline fed by all spiders, the second spider of a page
\* and the second spider of a raw collection included
NextNorm == \E rec \in Records \cup TwinRecords \cup SharedRecords : IngestItem(rec)

SpecNorm == Init /\ [][NextNorm]_vars

\* the pipelines together with the queue consumer and the translation worker
NextAll ==
    \/ NextPipe
    \/ ConsumeQueue
    \/ ProcessPendingReliable

SpecAll == Init /\ [][NextAll]_vars

\* the translation subsystem: ingests, the queue consumer and the worker
NextTrans ==
    \/ \E rec \in Records : IngestItem(rec)
    \/ ConsumeQueue
    \/ ProcessPendingTranslations

SpecTrans == Init /\ [][NextTrans]_vars

\* the worker loop of run(): a cycle every check_interval seconds for as long as
\* the service runs, with a translator that fails only on untranslatable texts
NextTransFair ==
    \/ \E rec \in Records : IngestItem(rec)
    \/ ConsumeQueue
    \/ ProcessPendingReliable

SpecTransFair ==
    Init /\ [][NextTransFair]_vars /\ WF_vars(ProcessPendingReliable) /\ WF_vars(ConsumeQueue)

\* the collections as earlier cycles can have left them: the product of page
\* r1 and the cache entry of its name hold whatever translated text
\* bulk_write and cache_translation were given, the empty string included
InitEmpty ==
    /\ StoreInit
    /\ snap = NoSnap
    /\ running = TRUE
    /\ wpc = "loop"
    /\ wl = NoLocals
    /\ crashes = 0
    /\ queue = <<>>
    /\ pending = <<>>
    /\ last = NoBatch
    /\ ingests = 0
    /\ \E cn \in {None, "", "A1"} :
          products = [r \in RawIds |->
              IF r = "r1"
              THEN [NormalizedRow(NoProduct, [raw |-> "r1", name |-> "a", description |-> ""])
                        EXCEPT !.nameCN = cn]
              ELSE NoProduct]
    /\ \E c \in {NoCache} \cup
                 {[exists |-> TRUE, translated_text |-> tt, usage_count |-> 1,
                   field_name |-> None] :
                      tt \in {"", "A1"}} :
          cache = [t \in Texts |-> IF t = "a" THEN c ELSE NoCache]

SpecEmpty == InitEmpty /\ [][NextTransFair]_vars

(***************************************************************************)
(* The translation of jump_cal: the enqueue step                           *)
(* (src/jump_cal/jump_cal/pipelines/translation.py) and the worker         *)
(* (src/jump_cal/scripts/translation_service.py).  pending is the          *)
(* <collection>_translation_pending collection in the order of insertion,  *)
(* products the <collection>_translated collection by item_id.             *)
(***************************************************************************)
\* the scraped item of each _id, with the fields to translate
JumpDoc(r) ==
    [k \in {"item_id", "name", "description"} |->
        IF k = "item_id" THEN r
        ELSE IF r = "r1" THEN (IF k = "name" THEN "a" ELSE "")
        ELSE IF r = "r2" THEN (IF k = "name" THEN "b" ELSE "a")
        ELSE (IF k = "name" THEN "a" ELSE "b")]

\* TranslationPipeline.process_item of jump_cal: nothing for an item that has
\* a translated document, else the upsert of its pending document by item_id
JumpCalEnqueue(r) ==
    /\ pending' = IF products[r].exists
                     \/ \E i \in 1..Len(pending) : pending[i]["item_id"] = r
                  THEN pending
                  ELSE Append(pending, JumpDoc(r))
    /\ last' = NoBatch
    /\ UNCHANGED <<products, queue, cache, ingests, running, wpc, wl, crashes, snap>>
    /\ UNCHANGED storeVars

\* get_cached_translation(text, field_name): find_one by text_hash and
\* field_name
JumpCachedTranslation(c, text, field) ==
    IF c[text].exists /\ c[text].field_name = field THEN c[text].translated_text ELSE None

\* translate_with_cache of jump_cal for the documents of a batch: the texts of
\* field f that miss the cache
JumpMisses(c, docs, f) ==
    {docs[i][f] : i \in {k \in 1..Len(docs) :
        Truthy(docs[k][f]) /\ ~Truthy(JumpCachedTranslation(c, docs[k][f], f))}}

\* process_collection_pending: the batch is find().sort('created_at', 1)
\* .limit(batch_size) on documents that have createdAt and no created_at, so
\* the sort key ties on all of them and any batch_size documents come back.
\* The fields with a miss are translated one after the other, in the order
\* of their first miss, each result cached with its field_name; done of
\* these calls succeed.  If all do, the translated documents are upserted
\* and their pending documents deleted; else the cycle ends at the failed
\* call with the cache entries made so far
JumpCalCycle ==
    /\ pending # <<>>
    /\ \E taken \in {S \in SUBSET (1..Len(pending)) :
                          Cardinality(S) = Min(BatchSize, Len(pending))} :
       \E docs \in {SelectSeq(pending, LAMBDA d :
                        \E i \in taken : pending[i]["item_id"] = d["item_id"])} :
       \E order \in {SelectSeq(
                        IF \E i \in 1..Len(docs) :
                              /\ docs[i]["description"] \in JumpMisses(cache, docs, "description")
                              /\ \A k \in 1..i :
                                    docs[k]["name"] \notin JumpMisses(cache, docs, "name")
                        THEN <<"description", "name">> ELSE Fields,
                        LAMBDA f : JumpMisses(cache, docs, f) # {})} :
       \E done \in 0..Len(order) :
           /\ cache' = [t \in Texts |->
                  LET fs == {k \in 1..done : t \in JumpMisses(cache, docs, order[k])}
                  IN  IF fs = {} THEN cache[t]
                      ELSE [exists |-> TRUE, translated_text |-> Translate(t, 1),
                            usage_count |-> 1,
                            field_name |-> order[CHOOSE k \in fs : \A k2 \in fs : k2 <= k]]]
           /\ products' =
                  IF done < Len(order) THEN products
                  ELSE [r \in RawIds |->
                          IF \E i \in 1..Len(docs) :
                                /\ docs[i]["item_id"] = r
                                /\ \E f \in FieldSet : Truthy(docs[i][f])
                          THEN [products[r] EXCEPT
                                  !.exists = TRUE,
                                  !.name = JumpDoc(r)["name"],
                                  !.description = JumpDoc(r)["description"],
                                  !.nameCN =
                                      IF ~Truthy(JumpDoc(r)["name"]) THEN @
                                      ELSE IF JumpDoc(r)["name"] \in JumpMisses(cache, docs, "name")
                                      THEN Translate(JumpDoc(r)["name"], 1)
                                      ELSE JumpCachedTranslation(cache, JumpDoc(r)["name"], "name"),
                                  !.descriptionCN =
                                      IF ~Truthy(JumpDoc(r)["description"]) THEN @
                                      ELSE IF JumpDoc(r)["description"]
                                                  \in JumpMisses(cache, docs, "description")
                                      THEN Translate(JumpDoc(r)["description"], 1)
                                      ELSE JumpCachedTranslation(cache, JumpDoc(r)["description"],
                                                                 "description")]
                          ELSE products[r]]
           /\ pending' =
                  IF done < Len(order) THEN pending
                  ELSE SelectSeq(pending, LAMBDA d :
                          ~\E i \in 1..Len(docs) :
                               /\ docs[i]["item_id"] = d["item_id"]
                               /\ \E f \in FieldSet : Truthy(docs[i][f]))
           /\ last' = [outcome |-> IF done < Len(order) THEN "error" ELSE "ok",
                       batch   |-> docs,
                       missed  |-> {m \in (1..Len(docs)) \X FieldSet :
                                       docs[m[1]][m[2]] \in JumpMisses(cache, docs, m[2])},
                       docs    |-> docs,
                       calls   |-> [k \in 1..Min(done + 1, Len(order)) |->
                                      [field |-> order[k],
                                       texts |-> SelectSeq(<<"a", "b">>,
                                           LAMBDA t : t \in JumpMisses(cache, docs, order[k])),
                                       returned |-> IF k <= done THEN 1 ELSE -1,
                                       translations |-> <<>>]],
                       deleted |-> {}]
    /\ UNCHANGED <<queue, ingests, running, wpc, wl, crashes, snap>>
    /\ UNCHANGED storeVars

SpecJump == Init /\ [][JumpCalCycle \/ \E r \in RawIds : JumpCalEnqueue(r)]_vars

(***************************************************************************)
(* Notifications.  JumpCalMongoPipeline of jump_cal/pipelines/jump_cal.py  *)
(* upserts into collection by goodsName and notifies itself; in toy_news   *)
(* DataNormalizationPipeline upserts into products by raw_data_id, records  *)
(* its verdict in spider.notify_meta, and NotifyPipeline reads it.          *)
(* notify.sent is the notification the last process_item decided to send.  *)
(***************************************************************************)
GoodsNames == {"g1", "g2"}

\* the scraped goods (jumpcal.py, lines 45-59): price and releaseDate are
\* always set
GoodsItems ==
    [goodsName : GoodsNames, price : {"p", "q"}, releaseDate : {"d", "e"},
     maker : {"m", "n"}]

\* the mapped products of one raw row (items.py, map_*_to_product)
MappedProducts ==
    [raw : {"r1"}, name : Names, price : {"p", "q"}, release_date : {"d", "e"},
     images : {<<>>, <<"i1">>}]

NoSent == [pipeline |-> None, key |-> None, title |-> None]

\* the fields of an item that $set writes: all but its key
SetFields(it, key) == [k \in (DOMAIN it) \ {key} |-> it[k]]

\* JumpCalMongoPipeline.process_item: find_one, the upsert, then the
\* notification: an update (modified_count > 0: updatedAt is always new) whose
\* price or releaseDate differs from old_data, else a row that was not there
JumpCalProcessItem(it) ==
    LET old == collection[it.goodsName]
        modified_count == IF old.exists THEN 1 ELSE 0
    IN  /\ collection' = [collection EXCEPT ![it.goodsName] =
                              [@ EXCEPT !.exists = TRUE,
                                        !.fields = Merge(@, SetFields(it, "goodsName"))]]
        /\ notify' = [notify EXCEPT !.sent =
               IF /\ modified_count > 0
                  /\ \/ old.fields["price"] # it.price
                     \/ old.fields["releaseDate"] # it.releaseDate
               THEN [pipeline |-> "jump_cal", key |-> it.goodsName, title |-> "update"]
               ELSE IF ~old.exists
               THEN [pipeline |-> "jump_cal", key |-> it.goodsName, title |-> "new"]
               ELSE NoSent]
        /\ UNCHANGED <<history, pc, item, old_data, calls, detect, chain>>
        /\ UNCHANGED transVars

\* (mutant) every notification is given the image channel
ChannelImageText(normalized_data) == "image_text"

\* normalization.py, line 140: 'image_text' if normalized_data.get('images')
\* else 'text'
ChannelOf(normalized_data) ==
    IF normalized_data.images # <<>> THEN "image_text" ELSE "text"

\* what NotifyPipeline.process_item can be given: an item with its
\* product_hash and images, the ItemAdapter that TranslationPipeline returns,
\* or None
NotifyGiven ==
    [kind : {"item", "adapter", "None"}, raw : {"r1"}, name : Names,
     images : {<<>>, <<"i1">>}]

\* NotifyPipeline.process_item: ItemAdapter(item) (line 18, outside the try)
\* raises TypeError for anything that is no item; the item is returned
\* unsent without an enabled entry of notify_meta; item.get('images')[0]
\* (line 38) fails inside the try for an item without image, so nothing is
\* sent
NotifyProcessItem(given, notify_meta) ==
    LET item_id == ProductHash(given.raw, given.name)
    IN  IF given.kind # "item"
        THEN [raised |-> "TypeError", sent |-> NoSent]
        ELSE IF item_id \notin DOMAIN notify_meta \/ ~notify_meta[item_id].enable
        THEN [raised |-> None, sent |-> NoSent]
        ELSE IF notify_meta[item_id].type = "image_text"
        THEN [raised |-> None,
              sent |-> IF given.images = <<>> THEN NoSent
                       ELSE [pipeline |-> "toy_news", key |-> given.raw,
                             title |-> IF notify_meta[item_id].isNew
                                       THEN "new" ELSE "update",
                             channel |-> "image_text",
                             image_url |-> given.images[1]]]
        ELSE [raised |-> None,
              sent |-> [pipeline |-> "toy_news", key |-> given.raw,
                        title |-> IF notify_meta[item_id].isNew
                                  THEN "new" ELSE "update",
                        channel |-> "text"]]

\* _normalize_product_and_save, TranslationPipeline and then NotifyPipeline
\* (the ITEM_PIPELINES of bsp_prize, bandai_hobby and 1kuji): the upsert by
\* raw_data_id, is_new = upserted_id is not None, notify_meta[product_hash] =
\* {enable, isNew, type}.  The stored row has no translated field here (no
\* worker runs), so _process_product_translation returns its ItemAdapter
\* (line 152) and that is what NotifyPipeline is given.
NormalizeAndNotify(it) ==
    LET is_new == ~products[it.raw].exists
        product_hash == ProductHash(it.raw, it.name)
        meta == Merge(notify.meta, product_hash :> [enable |-> is_new,
                                                    isNew |-> is_new,
                                                    type |-> ChannelOf(it)])
        given == [kind |-> "adapter", raw |-> it.raw, name |-> it.name,
                  images |-> it.images]
    IN  /\ products' = [products EXCEPT ![it.raw] =
                            [@ EXCEPT !.exists = TRUE,
                                      !.fields = Merge(@, SetFields(it, "raw"))]]
        /\ notify' = [notify EXCEPT
               !.meta = meta,
               !.sent = NotifyProcessItem(given, meta).sent]
        /\ UNCHANGED <<collection, history, pc, item, old_data, calls, detect, chain>>
        /\ UNCHANGED <<queue, pending, cache, last, ingests, running, wpc, wl, crashes,
                       snap>>

InitNotify ==
    /\ detect = NoDetect
    /\ chain = NoChain
    /\ notify = [meta |-> EmptyDict, tried |-> {}, sent |-> NoSent]
    /\ collection = [g \in GoodsNames |-> NoRow]
    /\ products = [r \in {"r1"} |-> NoRow]
    /\ history = <<>>
    /\ pc = [w \in Writers |-> "idle"]
    /\ item = [w \in Writers |-> NoItem]
    /\ old_data = [w \in Writers |-> NoRow]
    /\ calls = 0
    /\ snap = NoSnap
    /\ running = TRUE
    /\ wpc = "loop"
    /\ wl = NoLocals
    /\ crashes = 0
    /\ queue = <<>>
    /\ pending = <<>>
    /\ cache = [t \in Texts |-> NoCache]
    /\ last = NoBatch
    /\ ingests = 0

NextNotify ==
    \/ \E it \in GoodsItems : JumpCalProcessItem(it)
    \/ \E it \in MappedProducts : NormalizeAndNotify(it)

SpecNotify == InitNotify /\ [][NextNotify]_vars

\* the records of the spiders going through the item pipelines, the redis
\* consumer and the worker running beside them
NextChain ==
    \/ \E rec \in Records \cup TwinRecords : ItemPipelines(rec)
    \/ \E spider_name \in SpiderNames : UnmappedItem(spider_name)
    \/ ConsumeQueue
    \/ ProcessPendingReliable

SpecChain == Init /\ [][NextChain]_vars

(***************************************************************************)
(* The mappers of toy_news/items.py.  A raw item is a dict; the mapped     *)
(* product is a dict too.  A call is kept in chain with the call before it. *)
(***************************************************************************)
\* (mutant) raw_item[key]: a missing key is an error
ItemGetStrict(raw_item, key, default) ==
    IF key \in DOMAIN raw_item THEN raw_item[key] ELSE "KeyError"

\* raw_item.get(key, default)
ItemGet(raw_item, key, default) ==
    IF key \in DOMAIN raw_item THEN raw_item[key] ELSE default

\* the texts f"{name}|{url}" whose md5 digests agree on the first 8 hex digits
CollidingTexts == {<<"b", "u2">>, <<None, "u2">>}

\* _generate_hash: hashlib.md5(text).hexdigest()[:8], a function of the text
\* that is not injective
GenerateHash(text) == IF text \in CollidingTexts THEN <<"h0", "h0">> ELSE text

NoHash3 == <<"", "", "">>

\* (mutant) the hash leaves the prefix out
HashOfNameUrl(prefix, name, url) ==
    [raised |-> None, value |-> <<"">> \o GenerateHash(<<name, url>>)]

\* prefix + '_' + _generate_hash(f"{name}|{url}"); str + on None raises
\* TypeError
HashOf(prefix, name, url) ==
    IF prefix = None THEN [raised |-> "TypeError", value |-> NoHash3]
    ELSE [raised |-> None, value |-> <<prefix>> \o GenerateHash(<<name, url>>)]

\* map_bsp_prize_to_product
MapBspPrize(raw_item) ==
    LET spider_name == ItemGet(raw_item, "spider_name", None)
        name == ItemGet(raw_item, "title", None)
        url == ItemGet(raw_item, "url", None)
        hash == HashOf(spider_name, name, url)
    IN  [raised  |-> hash.raised,
         product |-> [source       |-> "bsp_prize",
                      spider_name  |-> spider_name,
                      url          |-> url,
                      name         |-> name,
                      description  |-> ItemGet(raw_item, "desc", ""),
                      price        |-> "",
                      images       |-> ItemGet(raw_item, "gallery", <<>>),
                      product_hash |-> hash.value]]

\* map_dengeki_hobby_to_product: the hash prefix is the source
MapDengekiHobby(raw_item) ==
    LET name == ItemGet(raw_item, "title", None)
        url == ItemGet(raw_item, "url", None)
        hash == HashOf("blog_dengeki_hobby", name, url)
    IN  [raised  |-> hash.raised,
         product |-> [source       |-> "blog_dengeki_hobby",
                      spider_name  |-> ItemGet(raw_item, "spider_name", None),
                      url          |-> url,
                      name         |-> name,
                      description  |-> ItemGet(raw_item, "content", ""),
                      price        |-> "",
                      images       |-> ItemGet(raw_item, "images", <<>>),
                      product_hash |-> hash.value]]

NoMapped == [raised |-> None, product |-> EmptyDict]

\* DataMapper.map_to_product: None (no product) without a mapper
MapToProduct(raw_item, source) ==
    IF source = "bsp_prize" THEN MapBspPrize(raw_item)
    ELSE IF source = "blog_dengeki_hobby" THEN MapDengekiHobby(raw_item)
    ELSE NoMapped

\* a raw item as a dict: an argument that is None stands for a missing key
RawItem(spider_name, title, url, desc, gallery) ==
    LET all == [k \in {"spider_name", "title", "url", "desc", "content", "gallery",
                       "images"} |->
                  IF k = "spider_name" THEN <<spider_name>>
                  ELSE IF k = "title" THEN <<title>>
                  ELSE IF k = "url" THEN <<url>>
                  ELSE IF k \in {"desc", "content"} THEN <<desc>>
                  ELSE <<gallery>>]
    IN  [k \in {x \in DOMAIN all : all[x] # <<None>>} |->
            IF k \in {"gallery", "images"} THEN all[k] ELSE all[k][1]]

\* the raw items that reach the mapper: process_item has set spider_name
\* (normalization.py, line 51); any of the scraped fields may be missing
ScrapedItems ==
    {RawItem(sp, t, u, d, g) :
        sp \in SpiderNames \ {"1kuji"}, t \in {None, "a", "b"}, u \in {None, "u2"},
        d \in {None, "d"}, g \in {None, "g"}}

NoCall == [raw_item |-> EmptyDict, source |-> None, result |-> NoMapped]

\* _normalize_product_and_save, line 96: map_to_product(adapter, source) with
\* the source process_item derived from the spider name
CallMapToProduct(raw_item) ==
    /\ chain' = [last |-> [raw_item |-> raw_item,
                           source   |-> GetSourceFromSpider(raw_item["spider_name"]),
                           result   |-> MapToProduct(raw_item,
                                            GetSourceFromSpider(raw_item["spider_name"]))],
                 prev |-> chain.last]
    /\ UNCHANGED <<collection, history, pc, item, old_data, calls, detect, notify>>
    /\ UNCHANGED transVars

InitMap ==
    /\ TransInit
    /\ chain = [last |-> NoCall, prev |-> NoCall]
    /\ detect = NoDetect
    /\ notify = NoNotify
    /\ collection = [u \in Urls |-> NoRow]
    /\ history = <<>>
    /\ pc = [w \in Writers |-> "idle"]
    /\ item = [w \in Writers |-> NoItem]
    /\ old_data = [w \in Writers |-> NoRow]
    /\ calls = 0

SpecMap == InitMap /\ [][\E raw_item \in ScrapedItems : CallMapToProduct(raw_item)]_vars

\* the steps of the service inside and between batches, with the translator
\* that fails only on untranslatable texts
WorkerStep ==
    \/ StartBatch
    \/ TranslateCall("reliable")
    \/ CacheOne
    \/ WriteOne
    \/ DeleteStep
    \/ LoopExit

\* the service under stop signals: run() goes on for as long as the process
\* lives, so its steps are taken whenever they can be
NextStop ==
    \/ \E rec \in Records : IngestItem(rec)
    \/ ConsumeQueue
    \/ WorkerStep
    \/ StopSignal

SpecStop == Init /\ [][NextStop]_vars /\ WF_vars(WorkerStep)

\* the service with a translator that repeats itself, dying inside a batch and
\* started again
NextCrash ==
    \/ \E rec \in Records : IngestItem(rec)
    \/ ConsumeQueue
    \/ StartBatch
    \/ TranslateCall("same")
    \/ CacheOne
    \/ WriteOne
    \/ DeleteStep
    \/ CrashRestart

SpecCrash == Init /\ [][NextCrash]_vars

(***************************************************************************)
(* Properties of the versioned store.                                      *)
(***************************************************************************)
\* writer w is inside a call for a stored identity whose record agrees with the
\* row it read on every non-system field the record carries
SameRecordCall(w) ==
    /\ pc[w] \in {"found", "updated"}
    /\ old_data[w].exists
    /\ \A k \in (DOMAIN item[w].fields) \ exclude_fields :
           Get(old_data[w].fields, k) = item[w].fields[k]

\* the history entries of url u, as indices into the history collection
EntriesOf(u) == {i \in 1..Len(history) : history[i].url = u}

EntriesAt(u, v) == {i \in EntriesOf(u) : history[i].version = v}

\* C1: no step of a process_item call whose record equals the stored row on all
\* its non-system fields inserts a history entry or changes the stored version,
\* in the first such call and in every repetition of it.
C1_IdempotentUpsert ==
    [][\A w \in SeqWriters :
         SameRecordCall(w) =>
             /\ history' = history
             /\ collection'[item[w].url].version = collection[item[w].url].version]_vars

\* an unchanged record has been upserted for the third call in a row of a stored
\* identity
C1_Witness ==
    \E w \in SeqWriters :
        /\ SameRecordCall(w)
        /\ pc[w] = "updated"
        /\ calls >= 3
        /\ Len(history) = 1

\* C2: between the calls of the single writer, the history versions of every
\* identity are exactly 1..N, each once, with N the version stored on its row
\* (no entry for an identity that has no row).
C2_HistoryVersionsExact ==
    (\A w \in SeqWriters : pc[w] = "idle") =>
        \A u \in Urls :
            /\ Cardinality(EntriesOf(u)) = collection[u].version
            /\ \A v \in 1..collection[u].version : Cardinality(EntriesAt(u, v)) = 1

\* an identity has reached version 3 and the writer is between calls
C2_Witness ==
    /\ \A w \in SeqWriters : pc[w] = "idle"
    /\ \E u \in Urls : collection[u].version = 3 /\ Cardinality(EntriesOf(u)) = 3

\* C3: under interleaved process_item calls for one url the history collection
\* never holds two entries of the same version for that url.
C3_OneEntryPerVersion ==
    \A u \in Urls : \A v \in 1..MaxCalls : Cardinality(EntriesAt(u, v)) <= 1

\* the non-system fields of record new whose value differs from the one row
\* old holds
Differing(old, new) ==
    {k \in (DOMAIN new) \ exclude_fields : Get(old, k) # new[k]}

\* the step of writer w from one position of process_item to the next
StepOf(w, from, to) == pc[w] = from /\ pc'[w] = to

\* the last entry of the history collection
LastEntry(h) == h[Len(h)]

\* C13: a process_item call for a stored identity whose record differs from
\* the stored row in some non-system field raises the stored version by exactly
\* 1 and gives the row the record's values, and writes exactly one history
\* entry, of the new version, whose changes are exactly the differing fields
\* with their old and new values.
C13_ChangeBumpsVersion ==
    [][\A w \in SeqWriters :
         LET u    == item[w].url
             diff == Differing(collection[u].fields, item[w].fields)
         IN  /\ (StepOf(w, "found", "updated") /\ collection[u].exists /\ diff # {}) =>
                    /\ collection'[u].version = collection[u].version + 1
                    /\ \A k \in DOMAIN item[w].fields :
                           Get(collection'[u].fields, k) = item[w].fields[k]
                    /\ history' = history
             /\ (StepOf(w, "updated", "idle") /\ old_data[w].exists
                 /\ Differing(old_data[w].fields, item[w].fields) # {}) =>
                    /\ Len(history') = Len(history) + 1
                    /\ SubSeq(history', 1, Len(history)) = history
                    /\ LastEntry(history').url = u
                    /\ LastEntry(history').version = collection[u].version
                    /\ collection[u].version = old_data[w].version + 1
                    /\ LastEntry(history').changes =
                           [k \in Differing(old_data[w].fields, item[w].fields) |->
                               [old |-> Get(old_data[w].fields, k),
                                new |-> item[w].fields[k]]]
                    /\ collection' = collection]_vars

\* a record that changed one of two stored fields has been processed: version 2
\* and a second history entry whose changes hold that field only
C13_Witness ==
    /\ \A w \in SeqWriters : pc[w] = "idle"
    /\ \E u \in Urls :
         /\ collection[u].version = 2
         /\ DOMAIN collection[u].fields = {"name", "price"}
         /\ Len(history) = 2
         /\ history[2].url = u
         /\ history[2].version = 2
         /\ DOMAIN history[2].changes = {"price"}

\* the entries of the history collection that carry the initial-creation marker
IsInitial(e) == "_initial" \in DOMAIN e.changes

\* C14: a record for an identity not stored yet is inserted with version 1 and
\* gets exactly one history entry, of version 1 with the initial-creation
\* marker; and always a history entry has the marker if and only if its version
\* is 1, and an entry of a higher version has a non-empty diff.
C14_InitialEntry ==
    /\ [][\A w \in SeqWriters :
            LET u == item[w].url
            IN  /\ (StepOf(w, "found", "updated") /\ ~collection[u].exists) =>
                       /\ collection'[u].exists
                       /\ collection'[u].version = 1
                       /\ collection'[u].fields = item[w].fields
                /\ (StepOf(w, "updated", "idle") /\ ~old_data[w].exists) =>
                       /\ history' = Append(history, LastEntry(history'))
                       /\ LastEntry(history').url = u
                       /\ LastEntry(history').version = 1
                       /\ LastEntry(history').changes = InitialMarker
                       /\ Cardinality({i \in 1..Len(history') :
                                          history'[i].url = u}) = 1]_vars
    /\ [](\A i \in 1..Len(history) :
             /\ IsInitial(history[i]) <=> history[i].version = 1
             /\ history[i].version >= 1
             /\ history[i].version > 1 => DOMAIN history[i].changes # {})

\* an identity has been created and then changed: its history holds the initial
\* entry and an entry of version 2 with a diff
C14_Witness ==
    \E u \in Urls :
        /\ Cardinality(EntriesOf(u)) = 2
        /\ \E i \in EntriesAt(u, 1) : IsInitial(history[i])
        /\ \E i \in EntriesAt(u, 2) : ~IsInitial(history[i]) /\ DOMAIN history[i].changes # {}

\* the fields the diff leaves out: _id, the timestamps, the version and the
\* type tag
SystemFields == {"_id", "createdAt", "updatedAt", "version", "spider_type"}

\* the value a document holds for a field, a missing field counting as None
ValueIn(d, k) == IF k \in DOMAIN d THEN d[k] ELSE None

\* C15: _detect_changes reports a field of the record exactly when the field is
\* not a system field and the stored value differs from the incoming one, with
\* both values; a stored value that is missing or None differs from an incoming
\* empty string; a record that differs from the row only in system fields gives
\* an empty diff.
C15_DetectChangesExact ==
    detect.done =>
        /\ \A k \in DetectKeys \cup {"_id"} :
               k \in DOMAIN detect.changes <=>
                   /\ k \in DOMAIN detect.new
                   /\ k \notin SystemFields
                   /\ ValueIn(detect.old, k) # detect.new[k]
        /\ \A k \in DOMAIN detect.changes :
               detect.changes[k] = [old |-> ValueIn(detect.old, k), new |-> detect.new[k]]
        /\ \A k \in (DOMAIN detect.new) \ SystemFields :
               (ValueIn(detect.old, k) = None /\ detect.new[k] = "") =>
                   k \in DOMAIN detect.changes
        /\ (\A k \in (DOMAIN detect.new) \ SystemFields :
                ValueIn(detect.old, k) = detect.new[k]) =>
               detect.changes = EmptyDict

\* _detect_changes has compared a row without a price with a record whose price
\* is the empty string and whose version and type tag differ from the row's:
\* it reported the price alone
C15_Witness ==
    /\ detect.done
    /\ "price" \notin DOMAIN detect.old
    /\ "price" \in DOMAIN detect.new
    /\ detect.new["price"] = ""
    /\ ValueIn(detect.old, "version") # ValueIn(detect.new, "version")
    /\ ValueIn(detect.old, "spider_type") # ValueIn(detect.new, "spider_type")
    /\ "_id" \in DOMAIN detect.new
    /\ DOMAIN detect.changes = {"price"}

(***************************************************************************)
(* Properties of the translation queue, cache and worker.                  *)
(***************************************************************************)
\* the product_hash values of the documents of a sequence
HashesOf(docs) == {docs[i]["product_hash"] : i \in 1..Len(docs)}

\* the translatable fields of a document that hold a text
TextFields(doc) == {f \in FieldSet : HasText(doc, f)}

\* C4: an identity enqueued twice before the worker runs has exactly one
\* pending entry: the translation queue never holds two messages for one
\* product_hash.
C4_OnePendingPerIdentity ==
    \A i, j \in 1..Len(queue) :
        queue[i]["product_hash"] = queue[j]["product_hash"] => i = j

\* the rows of two different products that hold text t in a translatable field
\* and the translation of it
TranslatedFor(r, t) ==
    {f \in FieldSet :
        /\ products[r].exists
        /\ (IF f = "name" THEN products[r].name ELSE products[r].description) = t
        /\ Truthy(RowCN(products[r], f))}

\* C5: when one source text has been translated for two different products,
\* the cache holds one entry for it with usage_count 2 and both products hold
\* the same translated text.
C5_CacheSharedCountsTwo ==
    \A t \in Texts : \A r1, r2 \in RawIds :
        \A f1 \in TranslatedFor(r1, t) : \A f2 \in TranslatedFor(r2, t) :
            r1 # r2 =>
                /\ cache[t].exists
                /\ cache[t].usage_count = 2
                /\ RowCN(products[r1], f1) = RowCN(products[r2], f2)

\* the calls of the cycle just run for which the translator returned fewer
\* lines than texts
ShortCalls ==
    {k \in 1..Len(last.calls) :
        last.calls[k].returned >= 0 /\ last.calls[k].returned < Len(last.calls[k].texts)}

\* C6: a cycle in which the translator returns fewer results than texts
\* completes without error, with the missing slots filled with the source
\* texts, and no pending record is removed without a translation.
C6_MismatchRepaired ==
    ShortCalls # {} =>
        /\ last.outcome = "ok"
        /\ \A k \in ShortCalls :
               \A j \in (last.calls[k].returned + 1)..Len(last.calls[k].texts) :
                   last.calls[k].translations[j] = last.calls[k].texts[j]
        /\ \A h \in last.deleted : h \notin HashesOf(pending)

\* C7: a step removes a pending record only if, after the step, the Product row
\* with its product_hash exists and holds a translation for every field of the
\* record that has text.
C7_DeleteOnlyWhenTranslated ==
    [][\A i \in 1..Len(pending) :
         pending[i]["product_hash"] \notin HashesOf(pending') =>
             \E r \in RawIds :
                 /\ products'[r].exists
                 /\ products'[r].product_hash = pending[i]["product_hash"]
                 /\ \A f \in TextFields(pending[i]) : Truthy(RowCN(products'[r], f))]_vars

\* the calls of the cycle just run that sent text t of field f
CallsSending(f, t) ==
    {k \in 1..Len(last.calls) :
        last.calls[k].field = f /\ InSeq(last.calls[k].texts, t)}

\* the texts of field f that missed the cache in the batch just run
MissedTexts(f) == {last.batch[m[1]][f] : m \in {x \in last.missed : x[2] = f}}

\* C8: in the batch just run every cache-miss text of a field was sent to the
\* translator in exactly one call, once in that call, and every document that
\* holds the text received that call's result for it.
C8_OneCallPerText ==
    last.outcome # "none" =>
        \A f \in FieldSet : \A t \in MissedTexts(f) :
            /\ Cardinality(CallsSending(f, t)) = 1
            /\ \A k \in CallsSending(f, t) :
                 /\ Cardinality({j \in 1..Len(last.calls[k].texts) :
                                    last.calls[k].texts[j] = t}) = 1
                 /\ \A m \in last.missed :
                        (m[2] = f /\ last.batch[m[1]][f] = t) =>
                            \E j \in 1..Len(last.calls[k].texts) :
                                /\ last.calls[k].texts[j] = t
                                /\ CN(f) \in DOMAIN last.docs[m[1]]
                                /\ last.docs[m[1]][CN(f)] = last.calls[k].translations[j]

\* field f of document i of the batch just run got a usable translation: from
\* the cache, or from the translator as a text that differs from the source
Served(i, f) ==
    \/ <<i, f>> \notin last.missed
    \/ \E k \in CallsSending(f, last.batch[i][f]) :
          \E j \in 1..Len(last.calls[k].texts) :
              /\ last.calls[k].texts[j] = last.batch[i][f]
              /\ last.calls[k].translations[j] # last.calls[k].texts[j]

\* C9: whatever the translator did with the other texts of the batch just run,
\* a document all of whose texts got a usable translation has been removed from
\* pending, and its Product row, if there is one, holds those translations.
C9_OthersNotBlocked ==
    last.outcome # "none" =>
        \A i \in 1..Len(last.batch) :
            (\A f \in TextFields(last.batch[i]) : Served(i, f)) =>
                /\ last.batch[i]["product_hash"] \notin HashesOf(pending)
                /\ \A r \in RawIds :
                       (products[r].exists
                        /\ products[r].product_hash = last.batch[i]["product_hash"]) =>
                           \A f \in TextFields(last.batch[i]) : Truthy(RowCN(products[r], f))

\* a pending record all of whose texts the translator can translate
Translatable(doc) == \A f \in TextFields(doc) : doc[f] \notin Untranslatable

PendingTranslatable(h) ==
    \E i \in 1..Len(pending) : pending[i]["product_hash"] = h /\ Translatable(pending[i])

AllHashes == {ProductHash(r, n) : r \in RawIds, n \in Names}

\* C10: with the worker loop running, a pending record whose texts the
\* translator can translate is eventually removed from pending.
C10_TranslatableEventuallyDone ==
    \A h \in AllHashes : PendingTranslatable(h) ~> (h \notin HashesOf(pending))

(***************************************************************************)
(* Properties of the service process: stop signals and restarts.           *)
(***************************************************************************)
\* a step that takes the service out of the batch it is in
BatchLeft == wpc \in InBatch /\ wpc' \notin InBatch

\* the batch ends as process_pending_translations ends it: after the last
\* UpdateOne, with delete_many, or in the except branch after the translator
\* raised
BatchEndsItself ==
    /\ wpc' = "loop"
    /\ \/ /\ wpc = "delete"
          /\ wl.i > Len(wl.docs)
          /\ pending' = DeleteMany(pending, PendingDeletions(wl.docs))
       \/ wpc = "translate" /\ last'.outcome = "error"

\* C11: once a stop signal has been received no step starts a batch, the batch
\* in progress is left only by its own end (its Product writes made and its
\* pending records deleted, or the translator's error), and the run loop
\* terminates.
C11_GracefulStop ==
    /\ [][~running => ~(wpc \notin InBatch /\ wpc' \in InBatch)]_vars
    /\ [][(~running /\ BatchLeft) => BatchEndsItself]_vars
    /\ (~running ~> (wpc = "stopped"))

\* the signal came inside a batch, and the batch has gone on to make its writes
\* and is about to delete the pending records it translated
C11_Witness ==
    /\ ~running
    /\ wpc = "delete"
    /\ wl.i > Len(wl.docs)
    /\ PendingDeletions(wl.docs) # {}

\* process_pending_translations run from beginning to end on the stores st
\* ([cache, products, pending]) with the translator that repeats itself: the
\* stores it leaves
UninterruptedBatch(st) ==
    LET items == PendingItems(st.pending)
        order == FieldOrder(st.cache, items)
        st0   == CacheLoop(st.cache, items)
        t1    == IF Len(order) >= 1
                 THEN TextsToTranslate(st.cache, items, order[1], Len(items)) ELSE <<>>
        st1   == IF Len(order) >= 1
                 THEN TranslateField(st0, st.cache, items, order[1], t1, SameReply(t1),
                                     BatchTranslateTexts(t1, SameReply(t1)))
                 ELSE st0
        t2    == IF Len(order) >= 2
                 THEN TextsToTranslate(st.cache, items, order[2], Len(items)) ELSE <<>>
        res   == IF Len(order) >= 2
                 THEN TranslateField(st1, st.cache, items, order[2], t2, SameReply(t2),
                                     BatchTranslateTexts(t2, SameReply(t2)))
                 ELSE st1
    IN  [cache    |-> res.cache,
         products |-> IF res.ok THEN BulkWrite(st.products, res.docs) ELSE st.products,
         pending  |-> IF res.ok THEN DeleteMany(st.pending, PendingDeletions(res.docs))
                      ELSE st.pending]

\* the Product row with product_hash h holds a translation for every field of
\* doc that has text
TranslationOnProduct(prods, doc) ==
    \E r \in RawIds :
        /\ prods[r].exists
        /\ prods[r].product_hash = doc["product_hash"]
        /\ \A f \in TextFields(doc) : Truthy(RowCN(prods[r], f))

\* the rerun of an interrupted batch is over and the Product, Pending and Cache
\* stores are as an uninterrupted batch would have left them
RerunSameStores ==
    snap.phase = "done" =>
        LET u == UninterruptedBatch(snap)
        IN  cache = u.cache /\ products = u.products /\ pending = u.pending

\* C12: after the service has died inside a batch and been started again, no
\* step removes a pending record whose translation is not on its Product, and
\* when the rerun of the batch is over the Product, Pending and Cache stores are
\* as an uninterrupted batch would have left them.
C12_CrashResume ==
    /\ [][crashes > 0 =>
            \A i \in 1..Len(pending) :
                pending[i]["product_hash"] \notin HashesOf(pending') =>
                    TranslationOnProduct(products', pending[i])]_vars
    /\ []RerunSameStores


\* C16: when the upsert fails with a uniqueness violation, process_item does
\* not propagate the error: it returns, writes no history entry, records no
\* notification, and leaves the stored rows as they were.  The step of
\* MongoDBPipeline that leaves "found" without an update is the handled
\* DuplicateKeyError; the ingest of a record whose product_hash another row
\* holds is the one of DataNormalizationPipeline: every ingest is either such
\* a record passing without effect, or a record saved.
C16_DuplicateKeyHandled ==
    /\ [][\A w \in Writers :
            (pc[w] = "found" /\ pc'[w] # "found" /\ pc'[w] # "updated") =>
                /\ pc'[w] = "idle"
                /\ collection' = collection
                /\ history' = history
                /\ notify' = notify]_vars
    /\ [][ingests' = ingests + 1 =>
            \E rec \in PipeRecords :
                IF HashClash(products, rec)
                THEN /\ products' = products
                     /\ notify' = notify
                     /\ queue' = queue
                     /\ history' = history
                ELSE /\ products'[rec.raw].exists
                     /\ products'[rec.raw].product_hash = ProductHash(rec.raw, rec.name)
                     /\ ProductHash(rec.raw, rec.name) \in DOMAIN notify'.meta]_vars

\* a writer that lost the insert race has returned, and the second spider's
\* record was rejected by the product_hash index
C16_Witness ==
    /\ collection["u1"].exists
    /\ Len(history) = 1
    /\ calls = 2
    /\ \A w \in Writers : pc[w] = "idle"
    /\ products["r1"].exists
    /\ ~products["r3"].exists
    /\ ingests = 2
    /\ \E h \in DOMAIN notify.meta : DOMAIN notify.meta = {h} /\ notify.meta[h]


\* C17: in every behaviour, interleaved process_item calls on one identity
\* included, the version stored on a row starts at 1 and never decreases.
C17_VersionMonotonic ==
    /\ [](\A u \in Urls : collection[u].exists => collection[u].version >= 1)
    /\ [][\A u \in Urls :
            /\ (~collection[u].exists /\ collection'[u].exists) =>
                    collection'[u].version = 1
            /\ collection[u].exists =>
                    collection'[u].version >= collection[u].version]_vars


\* C18: between the calls of the writer, a row of version N has a history
\* entry of version N, also after a failed history insert or a stop of the
\* process between update_one and the insert, and the history versions of an
\* identity have no gap.
C18_HistoryFollowsRow ==
    (\A w \in SeqWriters : pc[w] = "idle") =>
        \A u \in Urls :
            /\ collection[u].exists => EntriesAt(u, collection[u].version) # {}
            /\ \A i \in EntriesOf(u) : \A v \in 1..history[i].version :
                   EntriesAt(u, v) # {}


\* C19: the history collection is append-only: no step of the store, of the
\* translation enqueue, of the queue consumer or of the translation worker
\* changes or removes an entry that was inserted.
C19_HistoryAppendOnly ==
    [][/\ Len(history') >= Len(history)
       /\ SubSeq(history', 1, Len(history)) = history]_vars

\* two entries are in the history, and a worker cycle has translated a
\* product that was enqueued
C19_Witness ==
    /\ Len(history) = 2
    /\ \E r \in RawIds : products[r].exists /\ Truthy(products[r].nameCN)
    /\ last # NoBatch


\* C20: after any sequence of DataNormalizationPipeline ingests no two rows of
\* the normalized product collection have the same product_hash, and no step
\* removes a product row.
C20_ProductHashUnique ==
    /\ [](\A r1, r2 \in RawIds :
            (products[r1].exists /\ products[r2].exists
               /\ products[r1].product_hash = products[r2].product_hash) => r1 = r2)
    /\ [][\A r \in RawIds : products[r].exists => products'[r].exists]_vars

\* the second spider saved a product first; the same product from the first
\* spider was then rejected
C20_Witness ==
    /\ products["r3"].exists
    /\ ~products["r1"].exists
    /\ ingests = 2
    /\ DOMAIN notify.meta = {products["r3"].product_hash}
    /\ notify.meta[products["r3"].product_hash]


\* C21: once a Product row is created its product_hash never changes, also
\* when its raw record is ingested again with another name or by another
\* spider.
C21_ProductHashStable ==
    [][\A r \in RawIds :
         products[r].exists => products'[r].product_hash = products[r].product_hash]_vars

\* C22: the provenance fields of a Product row keep the values the row was
\* created with (of source, spider_name, ip and url the rows of the model
\* carry spider_name).
C22_ProvenanceImmutable ==
    [][\A r \in RawIds :
         products[r].exists => products'[r].spider_name = products[r].spider_name]_vars


\* C23: the enqueue step of toy_news enqueues exactly the translatable fields
\* that have non-empty text on the incoming item and no populated <field>CN on
\* the stored product row: every ingest is the ingest of some record that
\* pushes one message with exactly these fields, or none when there is no
\* such field.
C23_EnqueueUntranslated ==
    [][ingests' = ingests + 1 =>
        \E rec \in Records :
            LET row == products'[rec.raw]
                want == {f \in FieldSet : Truthy(rec[f]) /\ ~Truthy(RowCN(row, f))}
            IN  /\ row.exists /\ row.name = rec.name /\ row.description = rec.description
                /\ \A r \in RawIds \ {rec.raw} : products'[r] = products[r]
                /\ IF want = {} THEN queue' = queue
                   ELSE /\ Len(queue') = Len(queue) + 1
                        /\ Tail(queue') = queue
                        /\ DOMAIN Head(queue') = {"product_hash"} \cup want
                        /\ Head(queue')["product_hash"] = row.product_hash
                        /\ \A f \in want : Head(queue')[f] = rec[f]]_vars

\* a product whose name is translated and whose description is not was
\* ingested again: the message at the head of the queue asks for the
\* description alone
C23_Witness ==
    /\ queue # <<>>
    /\ DOMAIN Head(queue) = {"product_hash", "description"}
    /\ \E r \in RawIds :
          /\ products[r].exists
          /\ products[r].product_hash = Head(queue)["product_hash"]
          /\ Truthy(products[r].name) /\ Truthy(products[r].nameCN)
          /\ ~Truthy(products[r].descriptionCN)


C25_EnqueueOnlyOnChange ==
    [][(ingests' = ingests + 1 /\ products' = products) => queue' = queue]_vars


\* C26: the cache is keyed by the text alone: a text that has a cache entry
\* is not sent to the translator by any later translation, whatever the
\* product and the field it occurs in.
C26_CacheKeyedByText ==
    [][(last' # last /\ last'.outcome # "none") =>
        \A k \in 1..Len(last'.calls) : \A j \in 1..Len(last'.calls[k].texts) :
            ~Truthy(cache[last'.calls[k].texts[j]].translated_text)]_vars


\* the texts of the call the service has just made: the newest call of the
\* batch in progress, or of the cycle that ended with it
SentTexts ==
    IF wpc = "cache" THEN wl.calls[Len(wl.calls)].texts
    ELSE last.calls[Len(last.calls)].texts

\* C27: a translation obtained from the translator is in the cache before
\* it is written to a Product: every step that changes a translated field of
\* a Product row is the write of a batch document whose source text has a
\* cache entry; and no call of the translator sends a text that the cache
\* served when the batch was read.
C27_CachedBeforeApplied ==
    /\ [][\A r \in RawIds : \A f \in FieldSet :
            RowCN(products'[r], f) # RowCN(products[r], f) =>
                /\ wpc = "write"
                /\ wl.i <= Len(wl.docs)
                /\ HasText(wl.docs[wl.i], f)
                /\ cache[wl.docs[wl.i][f]].exists
                /\ cache'[wl.docs[wl.i][f]].exists]_vars
    /\ [][(wpc = "translate" /\ wpc' # "translate" /\ crashes' = crashes) =>
            \A j \in 1..Len(SentTexts') :
                ~Truthy(GetCachedTranslation(wl.c0, SentTexts'[j]))]_vars

\* inside a batch a Product has received a translation that the translator
\* gave in this batch
C27_Witness ==
    /\ wpc = "write"
    /\ wl.i > 1
    /\ wl.calls # <<>>
    /\ \E r \in RawIds : \E f \in FieldSet :
          /\ products[r].exists
          /\ Truthy(RowCN(products[r], f))
          /\ RowCN(products[r], f) # RowCN(snap.products[r], f)


\* C28: a worker cycle takes at most batch_size pending records, and they
\* are the ones enqueued first: the batch of every cycle is the head of the
\* pending collection, which is kept in the order of the enqueue steps.
C28_OldestFirst ==
    [][(last' # last /\ last'.outcome # "none") =>
        /\ Len(last'.batch) <= BatchSize
        /\ last'.batch = SubSeq(pending, 1, Min(BatchSize, Len(pending)))]_vars


\* the upsert made the row
RowCreated(old, new) == ~old.exists /\ new.exists

\* the upsert changed the price or the release date (field date) of a row
RowRepriced(old, new, date) ==
    /\ old.exists
    /\ old.fields["price"] # new.fields["price"] \/ old.fields[date] # new.fields[date]

\* C29: a notification is sent for a record exactly when its upsert made a
\* new row (title new) or changed the price or the release date of a row
\* (title update); any other upsert sends nothing.
C29_NotifyWhenDue ==
    [][/\ \A g \in GoodsNames :
            /\ RowCreated(collection[g], collection'[g])
                   <=> notify'.sent = [pipeline |-> "jump_cal", key |-> g, title |-> "new"]
            /\ RowRepriced(collection[g], collection'[g], "releaseDate")
                   <=> notify'.sent = [pipeline |-> "jump_cal", key |-> g, title |-> "update"]
       /\ \A r \in DOMAIN products :
            /\ RowCreated(products[r], products'[r])
                   <=> notify'.sent = [pipeline |-> "toy_news", key |-> r, title |-> "new"]
            /\ RowRepriced(products[r], products'[r], "release_date")
                   <=> notify'.sent = [pipeline |-> "toy_news", key |-> r, title |-> "update"]
      ]_vars


C31_UnmappedDropped ==
    [][(ingests' = ingests + 1 /\ chain'.source \notin RegisteredSources) =>
        /\ products' = products
        /\ queue' = queue
        /\ notify' = notify
        /\ chain'.normalized = None
        /\ chain'.translation = None
        /\ chain'.raised = None]_vars


\* the product fields a mapper fills from a key of the raw item, with the
\* value it uses when the key is missing
MappedFrom(source) ==
    {<<"spider_name", "spider_name", <<None>> >>, <<"url", "url", <<None>> >>,
     <<"name", "title", <<None>> >>,
     <<"description", IF source = "bsp_prize" THEN "desc" ELSE "content", <<"">> >>,
     <<"images", IF source = "bsp_prize" THEN "gallery" ELSE "images", <<<<>>>> >>}

IdentityOf(call) ==
    <<IF call.source = "blog_dengeki_hobby" THEN call.source
      ELSE call.raw_item["spider_name"],
      ItemGet(call.raw_item, "title", None), ItemGet(call.raw_item, "url", None)>>

BusinessFields(row) == [row EXCEPT !.nameCN = None, !.descriptionCN = None]

\* C34: the store and the translation subsystem do not write each other's
\* data.  A step that changes a translated field of a Product is a step of
\* the worker: it ingests nothing and leaves the business fields and the
\* identity of every Product, the raw rows with their versions and the
\* history as they are.  A step that changes anything else of a Product is
\* an ingest: it leaves every translated field, the pending collection and
\* the cache as they are.  The steps of the raw store touch no Product, no
\* pending record and no cache entry.
C34_SeparateWrites ==
    [][/\ (\E r \in RawIds : \E f \in FieldSet : RowCN(products'[r], f) # RowCN(products[r], f))
          => /\ ingests' = ingests
             /\ \A r \in RawIds : BusinessFields(products'[r]) = BusinessFields(products[r])
             /\ collection' = collection
             /\ history' = history
       /\ (\E r \in RawIds : BusinessFields(products'[r]) # BusinessFields(products[r]))
          => /\ ingests' = ingests + 1
             /\ \A r \in RawIds : \A f \in FieldSet :
                   RowCN(products'[r], f) = RowCN(products[r], f)
             /\ pending' = pending
             /\ cache' = cache
       /\ (collection' # collection \/ history' # history \/ pc' # pc)
          => /\ products' = products
             /\ pending' = pending
             /\ cache' = cache
             /\ queue' = queue]_vars

\* a Product that the worker translated has been ingested again with another
\* name: the translation is still on the row
C34_Witness ==
    /\ products["r1"].exists
    /\ products["r1"].name = "b"
    /\ Truthy(products["r1"].nameCN)
    /\ ingests = 2
    /\ collection["u1"].exists


\* ---------------------------------------------------------------------
\* The duplicates filter of the bsp_prize project
\* ---------------------------------------------------------------------

\* DuplicatesPipeline.__init__: self.ids_seen = set()
InitDup ==
    /\ TransInit
    /\ chain = [ids_seen |-> {}, last |-> None, returned |-> None]
    /\ detect = NoDetect
    /\ notify = NoNotify
    /\ collection = [u \in Urls |-> NoRow]
    /\ history = <<>>
    /\ pc = [w \in Writers |-> "idle"]
    /\ item = [w \in Writers |-> NoItem]
    /\ old_data = [w \in Writers |-> NoRow]
    /\ calls = 0

\* DuplicatesPipeline.process_item: DropItem for a url in ids_seen, otherwise
\* the url is added and the item returned.  No pipeline of this project
\* writes to a store, and no spider of toy_news lists this class in its
\* ITEM_PIPELINES.
DuplicatesProcessItem(url) ==
    /\ calls < MaxCalls
    /\ calls' = calls + 1
    /\ chain' = IF url \in chain.ids_seen
                 THEN [chain EXCEPT !.last = url, !.returned = "DropItem"]
                 ELSE [ids_seen |-> chain.ids_seen \cup {url}, last |-> url,
                       returned |-> "item"]
    /\ UNCHANGED <<collection, history, pc, item, old_data, notify, detect>>
    /\ UNCHANGED transVars

NextDup == \E url \in Urls : DuplicatesProcessItem(url)

SpecDup == InitDup /\ [][NextDup]_vars

\* the filter taken alone: a url already seen is dropped, the seen urls
\* only grow
DuplicatesFilterDrops ==
    [][/\ chain.ids_seen \subseteq chain'.ids_seen
       /\ chain'.last \in chain.ids_seen <=> chain'.returned = "DropItem"]_vars

\* C35: within one spider run at most one store write is performed per
\* identity: when MongoDBPipeline.process_item runs update_one for a url, no
\* earlier item of the run has written the row of that url.
C35_OneWritePerUrl ==
    [][\A w \in SeqWriters :
          (pc[w] = "found" /\ pc'[w] = "updated")
              => ~collection[item[w].url].exists]_vars


\* C36: the channel recorded for a Product is image_text exactly when the
\* Product has at least one image and text otherwise, and whatever
\* NotifyPipeline is given, an image_text notification it sends is for an
\* item with a first image, which is the image sent.
C36_ChannelByImages ==
    /\ \A r \in DOMAIN products :
          products[r].exists /\ "name" \in DOMAIN products[r].fields
              => LET h == ProductHash(r, products[r].fields["name"])
                 IN  /\ h \in DOMAIN notify.meta
                     /\ notify.meta[h].type = "image_text"
                            <=> products[r].fields["images"] # <<>>
                     /\ notify.meta[h].type \in {"image_text", "text"}
    /\ \A given \in NotifyGiven :
          LET out == NotifyProcessItem(given, notify.meta)
          IN  "channel" \in DOMAIN out.sent /\ out.sent.channel = "image_text"
                  => given.images # <<>> /\ out.sent.image_url = given.images[1]
    /\ "channel" \in DOMAIN notify.sent /\ notify.sent.channel = "image_text"
          => \E r \in DOMAIN products :
                products[r].exists /\ products[r].fields["images"] # <<>>

\* a new Product with an image has the image channel recorded, and an item
\* of it would be sent with its first image
C36_Witness ==
    /\ products["r1"].exists
    /\ products["r1"].fields["images"] = <<"i1">>
    /\ \E given \in NotifyGiven :
          LET out == NotifyProcessItem(given, notify.meta)
          IN  "channel" \in DOMAIN out.sent /\ out.sent.channel = "image_text"


\* a record left TranslationPipeline with every translatable field already
\* translated on the stored row
AllTranslatedPath == chain.translation = "NameError"

\* C37: TranslationPipeline.process_item returns the item it was given on
\* every path and never raises; when every translatable field is already
\* translated on the stored record it returns the item and pushes nothing
\* to the queue.
C37_ReturnsItem ==
    [][chain' # chain
          => /\ chain'.translation \in {None, "item"}
             /\ chain'.raised # "NameError"]_vars


\* the history entry of url u with the highest version
LatestEntry(u) ==
    history[CHOOSE i \in EntriesOf(u) :
                \A j \in EntriesOf(u) : history[j].version <= history[i].version]

\* C38: between process_item calls, the snapshot of the highest-version
\* history entry of an identity agrees with the stored row on every
\* non-system field, a field missing on one side counting as a difference.
C38_SnapshotIsRow ==
    \A u \in Urls :
        (/\ \A w \in SeqWriters : pc[w] = "idle"
         /\ collection[u].exists
         /\ EntriesOf(u) # {})
            => LET snapshot == LatestEntry(u).snapshot
                   row == collection[u].fields
               IN  \A k \in ((DOMAIN row) \cup (DOMAIN snapshot)) \ SystemFields :
                       /\ k \in DOMAIN row
                       /\ k \in DOMAIN snapshot
                       /\ row[k] = snapshot[k]


\* the value of business field f on a row
RowText(row, f) == IF f = "name" THEN row.name ELSE row.description

\* C39: a stored translation follows its source text: an ingest that changes
\* the name or the description of a stored Product to another text enqueues
\* that field for translation again.
C39_RetranslateOnChange ==
    [][\A r \in RawIds : \A f \in FieldSet :
          (/\ ingests' = ingests + 1
           /\ products[r].exists
           /\ RowText(products'[r], f) # RowText(products[r], f)
           /\ Truthy(RowText(products'[r], f)))
              => /\ Len(queue') = Len(queue) + 1
                 /\ f \in DOMAIN queue'[1]
                 /\ queue'[1][f] = RowText(products'[r], f)]_vars


\* ---------------------------------------------------------------------
\* The one-shot translation script jump_cal/scripts/ds_trans.py
\* ---------------------------------------------------------------------

\* the documents of the source collection
MaxDocs == 3

DsDocIds == 1..MaxDocs

\* batch_size of process_collection (10 in the script)
batch_size == 2

\* FIELDS_TO_TRANSLATE, in the order of the list
FIELDS_TO_TRANSLATE == <<"title", "goodsName">>

\* a source document: a field is None when the document lacks it or holds
\* an empty value
DsDocs == [title : {None, "t"}, goodsName : {None, "g"}, translatedAt : BOOLEAN]

\* what the translator answers for a text
DsTranslated(text) == IF text = "t" THEN "T" ELSE "G"

\* the ids of a set in natural order
RECURSIVE InOrder(_)
InOrder(S) ==
    IF S = {} THEN <<>>
    ELSE LET m == CHOOSE x \in S : \A y \in S : x <= y
         IN  <<m>> \o InOrder(S \ {m})

\* query: {} with --all, else {'translatedAt': {'$exists': False}}
DsQuery(source, translate_all) ==
    {d \in DsDocIds : translate_all \/ ~source[d].translatedAt}

\* source_coll.find(query).limit(batch_size)
DsFind(source, translate_all) ==
    LET found == InOrder(DsQuery(source, translate_all))
    IN  SubSeq(found, 1, Min(batch_size, Len(found)))

\* translate_documents_batch, lines 102-105: the translations of one field
\* applied back; idx is the 0-based position in docs, translated_docs grows
\* by one copy when idx >= len(translated_docs), and translated_docs[idx]
\* raises IndexError when idx is still out of range
RECURSIVE ApplyTranslations(_, _, _, _, _)
ApplyTranslations(acc, docs, indices, field, ok) ==
    IF acc.raised # None \/ indices = <<>> THEN acc
    ELSE LET idx == Head(indices) - 1
             grown == IF idx >= Len(acc.docs)
                      THEN Append(acc.docs,
                                  [id |-> docs[idx + 1].id,
                                   title |-> docs[idx + 1].title,
                                   goodsName |-> docs[idx + 1].goodsName,
                                   titleCN |-> None, goodsNameCN |-> None])
                      ELSE acc.docs
             text == docs[idx + 1][field]
             translation == IF ok THEN DsTranslated(text) ELSE text
         IN  IF idx >= Len(grown)
             THEN [raised |-> "IndexError", docs |-> grown]
             ELSE ApplyTranslations(
                      [raised |-> None,
                       docs |-> [grown EXCEPT ![idx + 1] =
                                    IF field = "title"
                                    THEN [@ EXCEPT !.titleCN = translation]
                                    ELSE [@ EXCEPT !.goodsNameCN = translation]]],
                      docs, Tail(indices), field, ok)

\* lines 92-95: the positions of the documents that hold the field
DocIndices(docs, field) ==
    InOrder({i \in 1..Len(docs) : docs[i][field] # None})

\* lines 110-118: a translated document none of whose translations differs
\* from its text raises ValueError
TranslationPerformed(doc) ==
    \/ doc.titleCN # None /\ doc.titleCN # doc.title
    \/ doc.goodsNameCN # None /\ doc.goodsNameCN # doc.goodsName

\* translate_documents_batch(docs); ok[f] tells whether batch_translate_texts
\* translated the texts of field f or returned them as they were (its except,
\* line 81)
TranslateDocumentsBatch(docs, ok) ==
    LET start == [raised |-> None, docs |-> <<>>]
        one == ApplyTranslations(start, docs, DocIndices(docs, "title"), "title",
                                 ok["title"])
        two == ApplyTranslations(one, docs, DocIndices(docs, "goodsName"),
                                 "goodsName", ok["goodsName"])
    IN  IF two.raised # None THEN two
        ELSE IF \E i \in 1..Len(two.docs) : ~TranslationPerformed(two.docs[i])
        THEN [raised |-> "ValueError", docs |-> two.docs]
        ELSE two

\* process_collection, lines 122-136: the query is fixed, total_docs counted
InitDs ==
    /\ TransInit
    /\ \E source \in [DsDocIds -> DsDocs] : \E translate_all \in BOOLEAN :
          chain = [pc |-> "while",
                   source |-> source,
                   translate_all |-> translate_all,
                   selected |-> DsQuery(source, translate_all),
                   total_docs |-> Cardinality(DsQuery(source, translate_all)),
                   processed_count |-> 0,
                   docs_to_translate |-> <<>>,
                   handled |-> [d \in DsDocIds |-> 0]]
    /\ detect = NoDetect
    /\ notify = NoNotify
    /\ collection = [u \in Urls |-> NoRow]
    /\ history = <<>>
    /\ pc = [w \in Writers |-> "idle"]
    /\ item = [w \in Writers |-> NoItem]
    /\ old_data = [w \in Writers |-> NoRow]
    /\ calls = 0

DsFrame ==
    /\ UNCHANGED <<collection, history, pc, item, old_data, calls, notify, detect>>
    /\ UNCHANGED transVars

\* lines 138-144: the loop test and the fetch of the next batch
DsNextBatch ==
    /\ chain.pc = "while"
    /\ LET docs == DsFind(chain.source, chain.translate_all)
       IN  chain' = IF chain.processed_count < chain.total_docs /\ docs # <<>>
                    THEN [chain EXCEPT !.pc = "batch", !.docs_to_translate = docs]
                    ELSE [chain EXCEPT !.pc = "done"]
    /\ DsFrame

\* lines 148-190: the batch is translated and written, translatedAt set on
\* the documents translated, processed_count raised by their number; any
\* exception is printed and the loop goes on (continue)
DsProcessBatch ==
    /\ chain.pc = "batch"
    /\ \E ok \in [{"title", "goodsName"} -> BOOLEAN] :
          LET docs == [i \in 1..Len(chain.docs_to_translate) |->
                          [id |-> chain.docs_to_translate[i],
                           title |-> chain.source[chain.docs_to_translate[i]].title,
                           goodsName |-> chain.source[chain.docs_to_translate[i]].goodsName]]
              out == TranslateDocumentsBatch(docs, ok)
              ids == {out.docs[i].id : i \in 1..Len(out.docs)}
          IN  chain' =
                IF out.raised # None
                THEN [chain EXCEPT !.pc = "while", !.docs_to_translate = <<>>]
                ELSE [chain EXCEPT
                        !.pc = "while",
                        !.docs_to_translate = <<>>,
                        !.source = [d \in DsDocIds |->
                                       IF d \in ids THEN [@[d] EXCEPT !.translatedAt = TRUE]
                                       ELSE @[d]],
                        !.handled = [d \in DsDocIds |->
                                        IF d \in ids THEN @[d] + 1 ELSE @[d]],
                        !.processed_count = @ + Len(out.docs)]
    /\ DsFrame

NextDs == DsNextBatch \/ DsProcessBatch

\* the script runs on: its loop takes its next step whenever it has one
SpecDs == InitDs /\ [][NextDs]_vars /\ WF_vars(NextDs)

\* when the loop has ended, every document the query selected at the start
\* has been written once
DsHandledOnce ==
    chain.pc = "done" => \A d \in chain.selected : chain.handled[d] = 1

\* C40: process_collection terminates: the batch loop ends after finitely
\* many iterations, whatever the translator answers and whatever fields the
\* documents hold.
C40_Terminates == <>(chain.pc = "done")

====
